---- MODULE Spec2Model ----
(***************************************************************************)
(* A model of the AMP Mini highlight pipeline (package mini).              *)
(*                                                                         *)
(*   Spec      : selection.select.select_segments, called NumRuns times    *)
(*               on the same candidates_by_src and Config.                 *)
(*                                                                         *)
(* Arithmetic is exact.  Times are integers in microseconds (1e-6 s), so   *)
(* that the 1e-6 tolerance of the camera-share test is one unit and        *)
(* round(x, 3) is rounding to a multiple of 1000.  Scores are integers in  *)
(* units of 1e-9, so that the jitter rng.random() * 1e-6 is an integer in  *)
(* 0..999 and round(score, 4) is rounding to a multiple of 100000.         *)
(* Binary floating point error is not modelled.                            *)
(***************************************************************************)
EXTENDS Integers, Sequences, FiniteSets, TLC

VARIABLES
    config,             \* the Config of the call
    candidates_by_src,  \* the mapping given to select_segments, in iteration order
    rng,                \* random.Random(config.seed): [seed, pos]
    pc,                 \* position inside select_segments
    ordered,            \* select_segments: ordered
    idx,                \* index of the next candidate of `for cand in ordered`
    selected,           \* select_segments: selected
    total_duration,     \* select_segments: total_duration
    camera_usage,       \* select_segments: camera_usage (defaultdict(float))
    last_camera_time,   \* select_segments: last_camera_time (dict)
    trimmed,            \* indices of `selected` whose end was trimmed (ghost)
    result,             \* the (edl, metrics) pair returned by the current call
    run,                \* number of the current call
    outputs,            \* to_dict() of the EDL of every finished call
    command,            \* cli: args.command
    config_data,        \* cli: the JSON of args.config, << >> when no path is given
    seed_arg,           \* cli: args.seed, << >> when absent
    cli_pc,             \* cli: position inside the command handler
    cli_trace,          \* cli: the stages the handler has entered, in order
    cli_config,         \* cli: the Config built by load_config
    cli_error,          \* cli: the message of the error raised, "" when none
    fc_args,            \* build_filter_complex: its arguments
    fc_pc,              \* build_filter_complex: position
    lines,              \* build_filter_complex: lines
    video_branches,     \* build_filter_complex: video_branches
    audio_branches,     \* build_filter_complex: audio_branches
    video_cursor,       \* build_filter_complex: video_cursor
    audio_cursor,       \* build_filter_complex: audio_cursor
    concat_inputs,      \* build_filter_complex: concat_inputs
    seg_idx,            \* build_filter_complex: idx of `for idx, seg in enumerate(segments)`
    fc_result,          \* build_filter_complex: (graph, video_label, audio_label) or the error
    bc_pc,              \* build_commands: position
    bc_edl,             \* build_commands: edl
    commands,           \* build_commands: commands
    ratio_idx,          \* build_commands: position in `for ratio in config.deliverables`
    bc_error,           \* build_commands: the message of the error raised, "" when none
    bc_run,             \* the number of build_commands calls made so far
    audio_cache,        \* _has_audio_stream: what lru_cache has memoized in this process
    audio_world,        \* what ffprobe answers for each source at present
    probes,             \* the sources ffprobe was run on during the current build_commands call
    ser_pc,             \* serialization: position
    ser_edl,            \* serialization: the EDL object
    ser_data,           \* serialization: edl.to_dict(), or the dictionary read from a file
    ser_back,           \* serialization: edl_from_dict(data)
    ser_again,          \* serialization: edl_from_dict(data).to_dict()
    gc_pc,              \* generate_candidates: position
    gc_path,            \* generate_candidates: path
    gc_duration,        \* generate_candidates: duration, what _probe_duration returned
    events_by_tag,      \* generate_candidates: events_by_tag, in the dict's order
    anchor_tags,        \* generate_candidates: anchor_tags
    tag_idx,            \* generate_candidates: position in `for tag in anchor_tags`
    event_idx,          \* generate_candidates: position in `for event in events_by_tag.get(tag, [])`
    gc_candidates,      \* generate_candidates: candidates
    windows,            \* generate_candidates: the start and end of each anchor's window after each step
    gc_result,          \* generate_candidates: the list returned
    as_pc,              \* analyze_sources: position
    as_paths,           \* analyze_sources: paths
    as_world,           \* what the detectors and ffprobe do for each source
    path_idx,           \* analyze_sources: position in `for path in paths`
    as_result           \* analyze_sources: result, in the dict's order

selVars == << config, candidates_by_src, rng, pc, ordered, idx, selected,
              total_duration, camera_usage, last_camera_time, trimmed, result,
              run, outputs >>

cliVars == << command, config_data, seed_arg, cli_pc, cli_trace, cli_config, cli_error >>

fcVars == << fc_args, fc_pc, lines, video_branches, audio_branches, video_cursor,
             audio_cursor, concat_inputs, seg_idx, fc_result >>

bcVars == << bc_pc, bc_edl, commands, ratio_idx, bc_error, bc_run, audio_cache,
             audio_world, probes >>

serVars == << ser_pc, ser_edl, ser_data, ser_back, ser_again >>

gcVars == << gc_pc, gc_path, gc_duration, events_by_tag, anchor_tags, tag_idx, event_idx,
             gc_candidates, windows, gc_result >>

asVars == << as_pc, as_paths, as_world, path_idx, as_result >>

vars == << selVars, cliVars, fcVars, bcVars, serVars, gcVars, asVars >>

-----------------------------------------------------------------------------
(* Units *)

Sec(n) == n * 1000000
Ms(n) == n * 1000
Us(n) == n
Score(n) == n * 100000          \* n in units of 1e-4
None == "None"

Abs(x) == IF x < 0 THEN -x ELSE x
Min2(a, b) == IF a <= b THEN a ELSE b
Max2(a, b) == IF a >= b THEN a ELSE b

\* Python round(x, ndigits) on a value that is an exact multiple of the unit:
\* to the nearest multiple of q, an exact tie to the even multiple.
RoundTo(x, q) ==
    LET lo == (x \div q) * q
        r == x - lo
    IN  IF 2 * r < q THEN lo
        ELSE IF 2 * r > q THEN lo + q
        ELSE IF (lo \div q) % 2 = 0 THEN lo ELSE lo + q

\* round(t, 3) of a time
TimeQuantum == 1000
\* round(s, 4) of a score
ScoreQuantum == 100000
Round3(t) == RoundTo(t, TimeQuantum)
Round4(s) == RoundTo(s, ScoreQuantum)

-----------------------------------------------------------------------------
(* Bounds *)

MaxCands == 3       \* candidates in one call
NumRuns == 2        \* calls of select_segments on the same input

-----------------------------------------------------------------------------
(* Orders on strings: Python compares str by code point *)

TagAlphabet == << "audio_peak", "brightness_flash", "faces", "motion", "scene_novelty" >>
SourceAlphabet == << "camA.mp4", "camB.mp4" >>

RankIn(alphabet, s) == CHOOSE i \in 1..Len(alphabet) : alphabet[i] = s

\* sorted(tags) as a tuple
SortedTags(tags) == SelectSeq(TagAlphabet, LAMBDA t : t \in tags)

\* list.sort / sorted: stable, ascending by the order Less
StableSort(seq, Less(_, _)) ==
    LET n == Len(seq)
        place(i) == Cardinality({ j \in 1..n :
                        \/ Less(seq[j], seq[i])
                        \/ (j < i /\ ~Less(seq[i], seq[j])) })
    IN  [p \in 1..n |-> seq[CHOOSE i \in 1..n : place(i) = p - 1]]

RECURSIVE SumSeq(_)
SumSeq(s) == IF s = << >> THEN 0 ELSE Head(s) + SumSeq(Tail(s))

RECURSIVE Flatten(_)
Flatten(ss) == IF ss = << >> THEN << >> ELSE Head(ss) \o Flatten(Tail(ss))

-----------------------------------------------------------------------------
(* edl.py: Config, Segment, EDL *)

DEFAULT_WEIGHTS ==
    [t \in {"audio_peak", "motion", "faces", "scene_novelty", "brightness_flash"} |->
        CASE t = "audio_peak" -> 4000000
          [] t = "motion" -> 3000000
          [] t = "faces" -> 2000000
          [] t = "scene_novelty" -> 800000
          [] t = "brightness_flash" -> 200000]

VALID_DELIVERABLES == {"9:16", "1:1", "16:9"}

\* Config(): the dataclass defaults, with max_per_cam_ratio as a fraction
DefaultConfig ==
    [ project |-> "Event_Recap",
      variant |-> "deterministic",
      seed |-> 42,
      max_duration |-> Sec(60),
      clip_min |-> Ms(1200),
      clip_max |-> Sec(4),
      target_range |-> << Sec(2), Ms(3500) >>,
      weights |-> DEFAULT_WEIGHTS,
      diversity |-> [ min_gap_same_cam |-> Sec(3),
                      max_per_cam_ratio |-> [num |-> 5, den |-> 10] ],
      branding |-> [ logo_path |-> None, logo_corner |-> "bottom_right",
                     safe_area |-> [num |-> 8, den |-> 10] ],
      deliverables |-> << "9:16" >> ]

\* Segment.duration / CandidateClip.duration
Duration(c) == Max2(0, c.end - c.start)

\* EDL.total_duration
EdlTotalDuration(edl) == SumSeq([i \in 1..Len(edl.segments) |-> Duration(edl.segments[i])])

\* EDL.to_dict; the metadata key is there only `if self.metadata`
ToDict(edl) ==
    LET data == [ project |-> edl.project,
                  variant |-> edl.variant,
                  seed |-> edl.seed,
                  max_duration |-> edl.max_duration,
                  clip_min |-> edl.clip_min,
                  clip_max |-> edl.clip_max,
                  segments |-> [i \in 1..Len(edl.segments) |->
                                  LET seg == edl.segments[i]
                                  IN  [ src |-> seg.src,
                                        in |-> Round3(seg.start),
                                        out |-> Round3(seg.end),
                                        score |-> Round4(seg.score),
                                        tags |-> seg.tags,
                                        cam |-> seg.camera ]] ]
    IN  IF DOMAIN edl.metadata = {} THEN data
        ELSE [k \in DOMAIN data \cup {"metadata"} |->
                 IF k = "metadata" THEN edl.metadata ELSE data[k]]

-----------------------------------------------------------------------------
(* selection/select.py *)

OverlapTolerance == 250000      \* tolerance: float = 0.25
ShareTolerance == 1             \* 1e-6
StopSlack == 10000              \* 0.01
JitterRange == 1000             \* rng.random() * 1e-6, in units of 1e-9

\* The first values of int(random.Random(seed).random() * 1000)
JitterStream(seed) ==
    CASE seed = 42 -> << 639, 25, 275, 223, 736, 676, 892, 86, 421, 29, 218, 505 >>
      [] seed = 1 -> << 134, 847, 763, 255, 495, 449, 651, 788, 93, 28, 835, 432 >>

\* (mutant) one generator shared by the calls and seeded once
RandomShared(seed) == IF rng.seed = seed THEN rng ELSE [seed |-> seed, pos |-> 0]
\* rng = random.Random(config.seed), for a call of select_segments
Random(seed) == [seed |-> seed, pos |-> 0]

\* a jitter a thousand times as large: rng.random() * 1e-3
JitterCoarse(g, k) == JitterStream(g.seed)[g.pos + k] * 1000000

\* the k-th value of rng.random() * 1e-6 drawn from generator g
Jitter(g, k) == JitterStream(g.seed)[g.pos + k] % JitterRange

\* key=lambda c: (-c.score, c.src, c.start, c.end)
FirstKeyLess(a, b) ==
    LET ra == RankIn(SourceAlphabet, a.src)
        rb == RankIn(SourceAlphabet, b.src)
    IN  \/ a.score > b.score
        \/ a.score = b.score /\ ra < rb
        \/ a.score = b.score /\ ra = rb /\ a.start < b.start
        \/ a.score = b.score /\ ra = rb /\ a.start = b.start /\ a.end < b.end

\* (mutant) the jittered score sorted ascending
JitteredKeyAscending(x, y) ==
    LET rx == RankIn(SourceAlphabet, x.cand.src)
        ry == RankIn(SourceAlphabet, y.cand.src)
    IN  \/ x.key < y.key
        \/ x.key = y.key /\ rx < ry
        \/ x.key = y.key /\ rx = ry /\ x.cand.start < y.cand.start

\* key=lambda item: (-item[0], item[1].src, item[1].start)
JitteredKeyLess(x, y) ==
    LET rx == RankIn(SourceAlphabet, x.cand.src)
        ry == RankIn(SourceAlphabet, y.cand.src)
    IN  \/ x.key > y.key
        \/ x.key = y.key /\ rx < ry
        \/ x.key = y.key /\ rx = ry /\ x.cand.start < y.cand.start

\* _order_candidates(candidates, rng)
OrderCandidates(candidates, g) ==
    LET first == StableSort(candidates, FirstKeyLess)
        jittered == [k \in 1..Len(first) |->
                        [key |-> first[k].score + Jitter(g, k), cand |-> first[k]]]
        second == StableSort(jittered, JitteredKeyLess)
    IN  [k \in 1..Len(second) |-> second[k].cand]

\* overlap of a candidate with an accepted segment
Overlap(seg, cand) == Min2(seg.end, cand.end) - Max2(seg.start, cand.start)

\* (mutant) the source test inverted: only other sources are compared
PassesOverlapCheckOtherSrc(cand, sel) ==
    \A i \in 1..Len(sel) :
        sel[i].src # cand.src => ~(Overlap(sel[i], cand) > OverlapTolerance)

\* _passes_overlap_check(cand, selected)
PassesOverlapCheck(cand, sel) ==
    \A i \in 1..Len(sel) :
        sel[i].src = cand.src => ~(Overlap(sel[i], cand) > OverlapTolerance)

\* camera = cand.camera or "unknown"
CameraOf(cand) == IF cand.camera \in {None, ""} THEN "unknown" ELSE cand.camera

\* camera_usage[camera] + duration > max_camera_share + 1e-6, with
\* max_camera_share = max_per_cam_ratio * max_duration, cleared of the denominator
ShareExceeded(usage, duration, cfg) ==
    LET ratio == cfg.diversity.max_per_cam_ratio
    IN  (usage + duration) * ratio.den
            > ratio.num * cfg.max_duration + ShareTolerance * ratio.den

\* last_time is not None and abs(cand.start - last_time) < min_gap_same_cam
TooClose(cand, camera, last, cfg) ==
    /\ camera \in DOMAIN last
    /\ Abs(cand.start - last[camera]) < cfg.diversity.min_gap_same_cam

\* the candidate is skipped by one of the four `continue`s
Rejected(cand, cfg, sel, usage, last) ==
    \/ Duration(cand) < cfg.clip_min
    \/ Duration(cand) > cfg.clip_max
    \/ ~PassesOverlapCheck(cand, sel)
    \/ ShareExceeded(usage[CameraOf(cand)], Duration(cand), cfg)
    \/ TooClose(cand, CameraOf(cand), last, cfg)

\* total_duration + duration > max_duration
OverBudget(cand, cfg, total) == total + Duration(cand) > cfg.max_duration

\* a stop at the first candidate that would exceed max_duration
HardStopOverBudget(cand, cfg, total) == OverBudget(cand, cfg, total)

\* remaining < config.clip_min: the hard stop
HardStop(cand, cfg, total) ==
    OverBudget(cand, cfg, total) /\ cfg.max_duration - total < cfg.clip_min

\* cand_end of an accepted candidate
CandEnd(cand, cfg, total) ==
    IF OverBudget(cand, cfg, total)
    THEN cand.start + Min2(Min2(Duration(cand), cfg.max_duration - total), cfg.clip_max)
    ELSE cand.end

\* Segment(...) built from an accepted candidate
MakeSegment(cand, cfg, total) ==
    [ src |-> cand.src,
      start |-> Round3(cand.start),
      end |-> Round3(CandEnd(cand, cfg, total)),
      score |-> cand.score,
      tags |-> SortedTags(cand.tags),
      camera |-> CameraOf(cand) ]

\* total_duration >= max_duration - 0.01
BudgetReached(total, cfg) == total >= cfg.max_duration - StopSlack

\* EDL(...) of select_segments and of _empty_edl
MakeEdl(cfg, segs) ==
    [ project |-> cfg.project,
      variant |-> cfg.variant,
      seed |-> cfg.seed,
      max_duration |-> cfg.max_duration,
      clip_min |-> cfg.clip_min,
      clip_max |-> cfg.clip_max,
      segments |-> segs,
      metadata |-> [ target_range |-> cfg.target_range,
                     deliverables |-> cfg.deliverables ] ]

\* (mutant) an EDL of the dataclass defaults instead of the Config's values
EmptyEdlOfDefaults(cfg) == MakeEdl(DefaultConfig, << >>)
EmptyEdl(cfg) == MakeEdl(cfg, << >>)

\* all_candidates
AllCandidates == Flatten([k \in 1..Len(candidates_by_src) |-> candidates_by_src[k].clips])

NoResult == [edl |-> None, metrics |-> None]
NoUsage == [c \in {"camA", "camB", "unknown"} |-> 0]
NoLast == [c \in {} |-> 0]

-----------------------------------------------------------------------------
(* Inputs *)

Clip(src, start, end, score, tags, camera) ==
    [src |-> src, start |-> start, end |-> end, score |-> score, tags |-> tags,
     camera |-> camera]

CandidatePool(src) ==
    IF src = "camA.mp4"
    THEN { Clip("camA.mp4", 0, Sec(3), Score(9000), {"motion"}, "camA"),
           Clip("camA.mp4", Ms(100), Ms(3100), Score(9000) + 400, {"audio_peak"}, "camA"),
           Clip("camA.mp4", Us(400), Us(3000600), Score(8000), {"motion", "faces"}, None),
           Clip("camA.mp4", Us(2750400), Us(5750400), Score(4000), {"faces"}, "camB"),
           Clip("camA.mp4", Sec(7), Ms(7003), Score(5000), {"motion"}, "camA"),
           Clip("camA.mp4", 0, Sec(3), Score(9000), {"faces"}, "camA") }
    ELSE { Clip("camB.mp4", 0, Sec(3), Score(9000), {"motion", "audio_peak"}, "camB"),
           Clip("camB.mp4", Us(1000400), Us(2200400), Score(7000), {"motion"}, "camA"),
           Clip("camB.mp4", Ms(4500), Ms(8500), Score(7000), {"scene_novelty"}, "camB"),
           Clip("camB.mp4", 0, Ms(500), Score(9500), {"motion"}, "camB"),
           Clip("camB.mp4", Ms(300), Ms(800), Score(4000), {"faces"}, "camB") }

SeqsUpTo(S, n) == UNION { [1..k -> S] : k \in 0..n }

\* the key orders of the mapping: no key, one key, both keys in either order
KeyOrders == { << >>, << "camA.mp4" >>, << "camB.mp4" >>,
               << "camA.mp4", "camB.mp4" >>, << "camB.mp4", "camA.mp4" >> }

\* the mappings whose lists hold at most MaxCands candidates in all; the list
\* under a key holds candidates of that source, as analyze_sources builds it
Entry(src, clips) == [src |-> src, clips |-> clips]

MappingsOver(keys) ==
    CASE Len(keys) = 0 -> { << >> }
      [] Len(keys) = 1 ->
            { << Entry(keys[1], l) >> : l \in SeqsUpTo(CandidatePool(keys[1]), MaxCands) }
      [] OTHER ->
            { << Entry(keys[1], p[1]), Entry(keys[2], p[2]) >> :
                p \in { q \in SeqsUpTo(CandidatePool(keys[1]), MaxCands)
                                \X SeqsUpTo(CandidatePool(keys[2]), MaxCands) :
                            Len(q[1]) + Len(q[2]) <= MaxCands } }

Mappings == UNION { MappingsOver(keys) : keys \in KeyOrders }

TestConfig ==
    [DefaultConfig EXCEPT !.max_duration = Sec(12), !.clip_min = Sec(1),
                          !.diversity.min_gap_same_cam = Sec(1)]

Ratio(n, d) == [num |-> n, den |-> d]

Configs ==
    { TestConfig,
      [TestConfig EXCEPT !.max_duration = Sec(6)],
      [TestConfig EXCEPT !.max_duration = Sec(10),
                         !.diversity.max_per_cam_ratio = Ratio(4, 10)],
      [TestConfig EXCEPT !.max_duration = Us(5000600),
                         !.diversity.max_per_cam_ratio = Ratio(1, 1),
                         !.diversity.min_gap_same_cam = 0],
      [TestConfig EXCEPT !.max_duration = Us(6000400), !.seed = 1],
      [TestConfig EXCEPT !.diversity.max_per_cam_ratio = Ratio(1, 1),
                         !.diversity.min_gap_same_cam = Us(1000400), !.seed = 1],
      [TestConfig EXCEPT !.clip_min = Ms(200), !.max_duration = Sec(4),
                         !.diversity.min_gap_same_cam = 0],
      [TestConfig EXCEPT !.max_duration = Ms(3500),
                         !.diversity.max_per_cam_ratio = Ratio(1, 1),
                         !.diversity.min_gap_same_cam = 0],
      [TestConfig EXCEPT !.max_duration = Ms(8), !.clip_min = Ms(2),
                         !.diversity.max_per_cam_ratio = Ratio(1, 1),
                         !.diversity.min_gap_same_cam = 0],
      [TestConfig EXCEPT !.max_duration = Us(4000400), !.clip_min = Us(1000200),
                         !.diversity.max_per_cam_ratio = Ratio(1, 1),
                         !.diversity.min_gap_same_cam = 0] }

-----------------------------------------------------------------------------
(* select_segments as a state machine *)

SelInit ==
    /\ config \in Configs
    /\ candidates_by_src \in Mappings
    /\ rng = [seed |-> 0, pos |-> 0]
    /\ pc = "call"
    /\ ordered = << >>
    /\ idx = 1
    /\ selected = << >>
    /\ total_duration = 0
    /\ camera_usage = NoUsage
    /\ last_camera_time = NoLast
    /\ trimmed = {}
    /\ result = NoResult
    /\ run = 1
    /\ outputs = << >>

Metrics(n, sel, total) ==
    [ total_candidates |-> n,
      selected_segments |-> Len(sel),
      selected_duration |-> Round3(total) ]

\* lines 21-29: no candidate at all
ReturnEmpty ==
    /\ pc = "call"
    /\ AllCandidates = << >>
    /\ rng' = Random(config.seed)
    /\ result' = [edl |-> EmptyEdl(config), metrics |-> Metrics(0, << >>, 0)]
    /\ outputs' = Append(outputs, ToDict(result'.edl))
    /\ pc' = "done"
    /\ UNCHANGED << config, candidates_by_src, ordered, idx, selected, total_duration,
                    camera_usage, last_camera_time, trimmed, run >>
    /\ UNCHANGED << cliVars, fcVars, bcVars, serVars, gcVars, asVars >>

\* lines 21-36: order the candidates and enter the loop
BeginSelection ==
    /\ pc = "call"
    /\ AllCandidates # << >>
    /\ LET g == Random(config.seed)
       IN  /\ ordered' = OrderCandidates(AllCandidates, g)
           /\ rng' = [g EXCEPT !.pos = g.pos + Len(AllCandidates)]
    /\ selected' = << >>
    /\ total_duration' = 0
    /\ camera_usage' = NoUsage
    /\ last_camera_time' = NoLast
    /\ trimmed' = {}
    /\ idx' = 1
    /\ pc' = "loop"
    /\ UNCHANGED << config, candidates_by_src, result, run, outputs >>
    /\ UNCHANGED << cliVars, fcVars, bcVars, serVars, gcVars, asVars >>

Cand == ordered[idx]

\* the for loop goes on with the next candidate, or ends
NextOrExit == IF idx + 1 > Len(ordered) THEN "return" ELSE "loop"

\* lines 38-53: one of the `continue`s
LoopContinue ==
    /\ pc = "loop"
    /\ Rejected(Cand, config, selected, camera_usage, last_camera_time)
    /\ idx' = idx + 1
    /\ pc' = NextOrExit
    /\ UNCHANGED << config, candidates_by_src, rng, ordered, selected, total_duration,
                    camera_usage, last_camera_time, trimmed, result, run, outputs >>
    /\ UNCHANGED << cliVars, fcVars, bcVars, serVars, gcVars, asVars >>

\* lines 55-58: remaining < clip_min, break
LoopBreak ==
    /\ pc = "loop"
    /\ ~Rejected(Cand, config, selected, camera_usage, last_camera_time)
    /\ HardStop(Cand, config, total_duration)
    /\ pc' = "return"
    /\ UNCHANGED << config, candidates_by_src, rng, ordered, idx, selected,
                    total_duration, camera_usage, last_camera_time, trimmed, result,
                    run, outputs >>
    /\ UNCHANGED << cliVars, fcVars, bcVars, serVars, gcVars, asVars >>

\* lines 55-79: the candidate is accepted, whole or trimmed
LoopAccept ==
    /\ pc = "loop"
    /\ ~Rejected(Cand, config, selected, camera_usage, last_camera_time)
    /\ ~HardStop(Cand, config, total_duration)
    /\ LET segment == MakeSegment(Cand, config, total_duration)
           camera == CameraOf(Cand)
       IN  /\ selected' = Append(selected, segment)
           /\ total_duration' = total_duration + Duration(segment)
           /\ camera_usage' = [camera_usage EXCEPT ![camera] = @ + Duration(segment)]
           /\ last_camera_time' =
                 [c \in DOMAIN last_camera_time \cup {camera} |->
                     IF c = camera THEN segment.start ELSE last_camera_time[c]]
           /\ trimmed' = IF OverBudget(Cand, config, total_duration)
                         THEN trimmed \cup {Len(selected) + 1} ELSE trimmed
           /\ pc' = IF BudgetReached(total_duration', config) THEN "return" ELSE NextOrExit
    /\ idx' = idx + 1
    /\ UNCHANGED << config, candidates_by_src, rng, ordered, result, run, outputs >>
    /\ UNCHANGED << cliVars, fcVars, bcVars, serVars, gcVars, asVars >>

\* lines 81-100: build the EDL and the metrics
Return ==
    /\ pc = "return"
    /\ result' = [edl |-> MakeEdl(config, selected),
                  metrics |-> Metrics(Len(AllCandidates), selected, total_duration)]
    /\ outputs' = Append(outputs, ToDict(result'.edl))
    /\ pc' = "done"
    /\ UNCHANGED << config, candidates_by_src, rng, ordered, idx, selected,
                    total_duration, camera_usage, last_camera_time, trimmed, run >>
    /\ UNCHANGED << cliVars, fcVars, bcVars, serVars, gcVars, asVars >>

\* the caller calls select_segments again with the same arguments
CallAgain ==
    /\ pc = "done"
    /\ run < NumRuns
    /\ run' = run + 1
    /\ pc' = "call"
    /\ result' = NoResult
    /\ ordered' = << >>
    /\ idx' = 1
    /\ selected' = << >>
    /\ total_duration' = 0
    /\ camera_usage' = NoUsage
    /\ last_camera_time' = NoLast
    /\ trimmed' = {}
    /\ UNCHANGED << config, candidates_by_src, rng, outputs >>
    /\ UNCHANGED << cliVars, fcVars, bcVars, serVars, gcVars, asVars >>

Next ==
    \/ ReturnEmpty
    \/ BeginSelection
    \/ LoopContinue
    \/ LoopBreak
    \/ LoopAccept
    \/ Return
    \/ CallAgain

NoArgs == [ segments |-> << >>, inputs_count |-> 0, logo_idx |-> << >>,
            width |-> 0, height |-> 0, source_audio |-> << >>,
            loudnorm |-> TRUE, synth_silence_for_missing_audio |-> TRUE ]
NoBranches == [i \in {} |-> << >>]
NoCursor == [i \in {} |-> 0]
NoGraph == [graph |-> << >>, video_label |-> "", audio_label |-> "", error |-> ""]

NoCommands == [r \in {} |-> << >>]
NoCache == [s \in {} |-> TRUE]

\* build_commands is not running and nothing has been probed
BcIdle ==
    /\ bc_pc = "idle"
    /\ bc_edl = None
    /\ commands = NoCommands
    /\ ratio_idx = 1
    /\ bc_error = ""
    /\ bc_run = 0
    /\ audio_cache = NoCache
    /\ audio_world = [s \in {"camA.mp4", "camB.mp4"} |-> TRUE]
    /\ probes = << >>

\* nothing is being serialized
SerIdle ==
    /\ ser_pc = "idle"
    /\ ser_edl = None
    /\ ser_data = None
    /\ ser_back = None
    /\ ser_again = None

\* analyze_sources is not running
AsIdle ==
    /\ as_pc = "idle"
    /\ as_paths = << >>
    /\ as_world = << >>
    /\ path_idx = 1
    /\ as_result = << >>

\* generate_candidates is not running
GcIdle ==
    /\ gc_pc = "idle"
    /\ gc_path = None
    /\ gc_duration = 0
    /\ events_by_tag = << >>
    /\ anchor_tags = << >>
    /\ tag_idx = 1
    /\ event_idx = 1
    /\ gc_candidates = << >>
    /\ windows = << >>
    /\ gc_result = << >>

\* build_filter_complex is not running
FcIdle ==
    /\ fc_args = NoArgs
    /\ fc_pc = "idle"
    /\ lines = << >>
    /\ video_branches = NoBranches
    /\ audio_branches = NoBranches
    /\ video_cursor = NoCursor
    /\ audio_cursor = NoCursor
    /\ concat_inputs = << >>
    /\ seg_idx = 0
    /\ fc_result = NoGraph

\* the command line is not in use
CliIdle ==
    /\ command = "none"
    /\ config_data = << >>
    /\ seed_arg = << >>
    /\ cli_pc = "idle"
    /\ cli_trace = << >>
    /\ cli_config = DefaultConfig
    /\ cli_error = ""

Init == SelInit /\ CliIdle /\ FcIdle /\ BcIdle /\ SerIdle /\ GcIdle /\ AsIdle

Spec == Init /\ [][Next]_vars

-----------------------------------------------------------------------------
(* Properties of select_segments *)

Done == pc = "done"
Segments == result.edl.segments

\* summed duration of the segments of segs that carry the camera label cam
UsageOf(segs, cam) ==
    SumSeq([i \in 1..Len(segs) |-> IF segs[i].camera = cam THEN Duration(segs[i]) ELSE 0])

\* a duration is within max_per_cam_ratio * max_duration + 1e-6
WithinShare(d) ==
    LET ratio == config.diversity.max_per_cam_ratio
    IN  d * ratio.den <= ratio.num * config.max_duration + ShareTolerance * ratio.den

\* C1: the summed duration of the segments of the returned EDL never exceeds
\* Config.max_duration.
C1_DurationCap == Done => EdlTotalDuration(result.edl) <= config.max_duration

\* C2: for every camera label, the summed duration of the accepted segments
\* carrying it stays within max_per_cam_ratio * max_duration + 1e-6, at every
\* point of the loop and in the returned EDL.
C2_CameraShare ==
    \A cam \in DOMAIN camera_usage :
        /\ WithinShare(camera_usage[cam])
        /\ WithinShare(UsageOf(selected, cam))
        /\ Done => WithinShare(UsageOf(Segments, cam))

\* no two same-source segments of segs intersect by more than 0.25 s
NoMaterialOverlap(segs) ==
    \A i, j \in 1..Len(segs) :
        (i < j /\ segs[i].src = segs[j].src)
            => Overlap(segs[i], segs[j]) <= OverlapTolerance

\* C3: no two segments of the returned EDL (nor of `selected` at any point)
\* that share a source intersect by more than 0.25 s, a trimmed segment included.
C3_NoOverlap == NoMaterialOverlap(selected) /\ (Done => NoMaterialOverlap(Segments))

\* C3 witness: a returned EDL with two intersecting same-source segments, the
\* later of them trimmed to the remaining duration.
C3_Witness ==
    /\ Done
    /\ \E i, j \in 1..Len(Segments) :
          /\ i < j /\ j \in trimmed
          /\ Segments[i].src = Segments[j].src
          /\ Overlap(Segments[i], Segments[j]) > 0

\* segments i < j of segs are consecutive among those of their camera
ConsecutiveSameCam(segs, i, j) ==
    /\ i < j
    /\ segs[i].camera = segs[j].camera
    /\ \A k \in (i + 1)..(j - 1) : segs[k].camera # segs[i].camera

\* C4: two accepted segments that are consecutive among their camera's segments
\* have start times at least min_gap_same_cam apart.
C4_MinGap ==
    \A i, j \in 1..Len(selected) :
        ConsecutiveSameCam(selected, i, j)
            => Abs(selected[i].start - selected[j].start)
                   >= config.diversity.min_gap_same_cam

\* C5: every call of select_segments on the same candidates and Config returns
\* an EDL with the same to_dict().
C5_Deterministic == \A i, j \in 1..Len(outputs) : outputs[i] = outputs[j]

\* C5 witness: two finished calls whose EDL holds two segments of equal score,
\* which the seeded jitter ordered.
C5_Witness ==
    /\ Len(outputs) >= 2
    /\ \E i, j \in 1..Len(outputs[2].segments) :
          i < j /\ outputs[2].segments[i].score = outputs[2].segments[j].score

\* a candidate that is eligible on its own: duration within [clip_min, clip_max],
\* within the camera share and within max_duration
Eligible(c) ==
    /\ Duration(c) >= config.clip_min
    /\ Duration(c) <= config.clip_max
    /\ WithinShare(Duration(c))
    /\ Duration(c) <= config.max_duration

NearIdentical(a, b) ==
    /\ a.src = b.src
    /\ Abs(a.start - b.start) <= Ms(500)
    /\ Abs(a.end - b.end) <= Ms(500)

\* the candidate set is two eligible near-identical candidates of one source
\* with different scores
MergePair ==
    /\ Len(AllCandidates) = 2
    /\ NearIdentical(AllCandidates[1], AllCandidates[2])
    /\ AllCandidates[1].score # AllCandidates[2].score
    /\ Eligible(AllCandidates[1])
    /\ Eligible(AllCandidates[2])

Higher == IF AllCandidates[1].score > AllCandidates[2].score
          THEN AllCandidates[1] ELSE AllCandidates[2]
Lower == IF AllCandidates[1].score > AllCandidates[2].score
         THEN AllCandidates[2] ELSE AllCandidates[1]

OnlyHigherSelected == Len(Segments) = 1 /\ Segments[1].score = Higher.score

\* C6 as stated: of two eligible near-identical same-source candidates with
\* different scores exactly one is returned, the higher-scoring one.
C6_PrefersHigher == (Done /\ MergePair) => OnlyHigherSelected

\* C6 amended: the same, when the scores differ by at least 1e-6 and the
\* lower-scoring candidate intersects the higher-scoring one, its bounds rounded
\* to 3 decimals, by more than 0.25 s.
C6_PrefersHigherApart ==
    ( /\ Done
      /\ MergePair
      /\ Higher.score - Lower.score >= JitterRange
      /\ Overlap([start |-> Round3(Higher.start), end |-> Round3(Higher.end)], Lower)
            > OverlapTolerance )
        => OnlyHigherSelected

\* C6 witness: such a pair went through the loop, the lower one rejected.
C6_Witness ==
    /\ Done
    /\ MergePair
    /\ Higher.score - Lower.score >= JitterRange
    /\ Overlap([start |-> Round3(Higher.start), end |-> Round3(Higher.end)], Lower)
          > OverlapTolerance
    /\ idx = 3
    /\ Len(Segments) = 1

\* C7: with no candidate the call returns an EDL with no segment, the Config's
\* project, variant, seed, max_duration, clip_min and clip_max, and zero metrics.
C7_EmptyInput ==
    (Done /\ AllCandidates = << >>) =>
        /\ Segments = << >>
        /\ result.edl.project = config.project
        /\ result.edl.variant = config.variant
        /\ result.edl.seed = config.seed
        /\ result.edl.max_duration = config.max_duration
        /\ result.edl.clip_min = config.clip_min
        /\ result.edl.clip_max = config.clip_max
        /\ result.metrics.total_candidates = 0
        /\ result.metrics.selected_segments = 0
        /\ result.metrics.selected_duration = 0

\* C7 witness: a finished call on a mapping whose lists are all empty.
C7_Witness == Done /\ AllCandidates = << >> /\ Len(candidates_by_src) = 2

-----------------------------------------------------------------------------
(* edl.py: Config.validate, _config_from_dict, load_config *)

WeightOne == 10000000           \* 1.0, weights being in units of 1e-7
WeightTolerance == 10           \* 1e-6

RECURSIVE SumOver(_, _)
SumOver(f, keys) ==
    IF keys = {} THEN 0
    ELSE LET k == CHOOSE x \in keys : TRUE IN f[k] + SumOver(f, keys \ {k})

\* sum(weights.values())
WeightTotal(weights) == SumOver(weights, DOMAIN weights)

\* (mutant) _validate_weights without the test of the keys
ValidateWeightsAnyKey(weights) ==
    IF DOMAIN weights = {} THEN "weights cannot be empty"
    ELSE IF ~(Abs(WeightTotal(weights) - WeightOne) < WeightTolerance)
         THEN "weights must sum to 1.0"
    ELSE ""

\* _validate_weights: the message of the ValueError raised, "" when none
ValidateWeights(weights) ==
    IF DOMAIN weights = {} THEN "weights cannot be empty"
    ELSE IF ~(Abs(WeightTotal(weights) - WeightOne) < WeightTolerance)
         THEN "weights must sum to 1.0"
    ELSE IF DOMAIN weights \ DOMAIN DEFAULT_WEIGHTS # {} THEN "Unsupported weight keys"
    ELSE ""

\* Config.validate: the message of the ValueError raised, "" when none
Validate(cfg) ==
    IF ValidateWeights(cfg.weights) # "" THEN ValidateWeights(cfg.weights)
    ELSE IF cfg.clip_min <= 0 \/ cfg.clip_max <= 0
         THEN "clip_min and clip_max must be positive"
    ELSE IF cfg.clip_min > cfg.clip_max THEN "clip_min cannot exceed clip_max"
    ELSE IF Len(cfg.target_range) # 2 \/ cfg.target_range[1] > cfg.target_range[2]
         THEN "target_range must be a [min, max] pair with min<=max"
    ELSE IF ~(0 < cfg.diversity.max_per_cam_ratio.num
              /\ cfg.diversity.max_per_cam_ratio.num <= cfg.diversity.max_per_cam_ratio.den)
         THEN "max_per_cam_ratio must be within (0,1]"
    ELSE IF cfg.branding.safe_area.num <= 0
            \/ cfg.branding.safe_area.num > cfg.branding.safe_area.den
         THEN "branding.safe_area must be in (0,1]"
    ELSE IF \E i \in 1..Len(cfg.deliverables) : cfg.deliverables[i] \notin VALID_DELIVERABLES
         THEN "Unsupported deliverable ratios"
    ELSE ""

\* data.get(key, default)
Get(data, key, default) == IF key \in DOMAIN data THEN data[key] ELSE default

\* _config_from_dict
ConfigFromDict(data) ==
    LET diversity_data == Get(data, "diversity", [x \in {} |-> 0])
        branding_data == Get(data, "branding", [x \in {} |-> 0])
    IN  [ project |-> Get(data, "project", "Event_Recap"),
          variant |-> Get(data, "variant", "deterministic"),
          seed |-> Get(data, "seed", 42),
          max_duration |-> Get(data, "max_duration", Sec(60)),
          clip_min |-> Get(data, "clip_min", Ms(1200)),
          clip_max |-> Get(data, "clip_max", Sec(4)),
          target_range |-> Get(data, "target_range", << Sec(2), Ms(3500) >>),
          weights |-> Get(data, "weights", DEFAULT_WEIGHTS),
          diversity |-> [ min_gap_same_cam |-> Get(diversity_data, "min_gap_same_cam", Sec(3)),
                          max_per_cam_ratio |->
                              Get(diversity_data, "max_per_cam_ratio", [num |-> 5, den |-> 10]) ],
          branding |-> [ logo_path |-> Get(branding_data, "logo_path", None),
                         logo_corner |-> Get(branding_data, "logo_corner", "bottom_right"),
                         safe_area |-> Get(branding_data, "safe_area", [num |-> 8, den |-> 10]) ],
          deliverables |-> Get(data, "deliverables", << "9:16", "1:1", "16:9" >>) ]

\* the Config that load_config builds before it validates it
BuiltConfig(file) == IF file = << >> THEN DefaultConfig ELSE ConfigFromDict(file[1])

\* (mutant) load_config returning the Config without cfg.validate()
LoadConfigUnvalidated(file) == [cfg |-> BuiltConfig(file), error |-> ""]

\* load_config: the Config and the message of the error raised, "" when none
LoadConfig(file) == [cfg |-> BuiltConfig(file), error |-> Validate(BuiltConfig(file))]

\* _override_seed_in_config
OverrideSeed(cfg, seed) == IF seed = << >> THEN cfg ELSE [cfg EXCEPT !.seed = seed[1]]

-----------------------------------------------------------------------------
(* cli.py: the command handlers *)

\* the stages of a handler after the configuration is loaded
Stages(cmd) ==
    CASE cmd = "analyze" ->
            << "resolve_inputs", "analyze_sources", "select_segments", "write_edl" >>
      [] cmd = "render" -> << "edl_from_file", "build_commands", "run_commands" >>
      [] cmd = "shotstack" ->
            << "edl_from_file", "build_shotstack_timeline", "write_timeline" >>
      [] cmd = "pipeline" ->
            << "resolve_inputs", "analyze_sources", "select_segments", "write_edl",
               "build_commands", "run_commands" >>

\* the stages that can raise: no input file, an unreadable EDL, an EDL without
\* segments, a failed ffmpeg run
CanRaise == { "resolve_inputs", "edl_from_file", "build_commands", "run_commands" }

\* args.seed exists for analyze and pipeline only
SeedOf(cmd, seed) == IF cmd \in {"analyze", "pipeline"} THEN seed ELSE << >>

-----------------------------------------------------------------------------
(* Inputs of the command line *)

Absent == << >>
Present(v) == << v >>

Field(key, opt) == IF opt = << >> THEN [x \in {} |-> 0] ELSE [x \in {key} |-> opt[1]]
Merge(f, g) == [x \in DOMAIN f \cup DOMAIN g |-> IF x \in DOMAIN f THEN f[x] ELSE g[x]]

WeightChoices ==
    { Absent,
      Present([x \in {} |-> 0]),
      Present([DEFAULT_WEIGHTS EXCEPT !["motion"] = @ + 5]),
      Present([DEFAULT_WEIGHTS EXCEPT !["motion"] = @ - 10]),
      Present([t \in {"audio_peak", "laughter"} |-> 5000000]) }

ClipMinChoices == { Absent, Present(0), Present(Sec(5)) }
ClipMaxChoices == { Absent, Present(Sec(0 - 1)) }
TargetRangeChoices == { Absent, Present(<< Ms(3500), Sec(2) >>), Present(<< Sec(2) >>) }
RatioChoices == { Absent, Present(Ratio(0, 10)), Present(Ratio(10, 10)), Present(Ratio(11, 10)) }
SafeAreaChoices == { Absent, Present(Ratio(12, 10)) }
DeliverableChoices == { Absent, Present(<< "9:16", "4:3" >>), Present(<< >>) }

ConfigFiles ==
    { Absent } \cup
    { Present(Merge(Field("weights", w),
              Merge(Field("clip_min", cmin),
              Merge(Field("clip_max", cmax),
              Merge(Field("target_range", tr),
              Merge(Field("diversity", IF r = << >> THEN << >>
                                       ELSE << Field("max_per_cam_ratio", r) >>),
              Merge(Field("branding", IF sa = << >> THEN << >>
                                      ELSE << Field("safe_area", sa) >>),
                    Field("deliverables", dl)))))))) :
        w \in WeightChoices, cmin \in ClipMinChoices, cmax \in ClipMaxChoices,
        tr \in TargetRangeChoices, r \in RatioChoices, sa \in SafeAreaChoices,
        dl \in DeliverableChoices }

Commands == { "analyze", "render", "shotstack", "pipeline" }

\* select_segments is not running
SelIdle ==
    /\ config = DefaultConfig
    /\ candidates_by_src = << >>
    /\ rng = [seed |-> 0, pos |-> 0]
    /\ pc = "idle"
    /\ ordered = << >>
    /\ idx = 1
    /\ selected = << >>
    /\ total_duration = 0
    /\ camera_usage = NoUsage
    /\ last_camera_time = NoLast
    /\ trimmed = {}
    /\ result = NoResult
    /\ run = 1
    /\ outputs = << >>

CliInit ==
    /\ command \in Commands
    /\ config_data \in ConfigFiles
    /\ seed_arg \in { << >>, << 7 >> }
    /\ cli_pc = "start"
    /\ cli_trace = << >>
    /\ cli_config = DefaultConfig
    /\ cli_error = ""

\* the first statement of every handler:
\* config = _override_seed_in_config(_load_config(args.config), args.seed)
CliLoadConfig ==
    /\ cli_pc = "start"
    /\ cli_trace' = Append(cli_trace, "load_config")
    /\ LET loaded == LoadConfig(config_data)
       IN  IF loaded.error # ""
           THEN /\ cli_error' = loaded.error
                /\ cli_config' = loaded.cfg
                /\ cli_pc' = "error"
           ELSE /\ cli_error' = ""
                /\ cli_config' = OverrideSeed(loaded.cfg, SeedOf(command, seed_arg))
                /\ cli_pc' = "loaded"
    /\ UNCHANGED << command, config_data, seed_arg >>
    /\ UNCHANGED << selVars, fcVars, bcVars, serVars, gcVars, asVars >>

NextStage == Stages(command)[Len(cli_trace)]

\* the next statement of the handler runs to its end
CliStage ==
    /\ cli_pc = "loaded"
    /\ Len(cli_trace) <= Len(Stages(command))
    /\ cli_trace' = Append(cli_trace, NextStage)
    /\ UNCHANGED << command, config_data, seed_arg, cli_pc, cli_config, cli_error >>
    /\ UNCHANGED << selVars, fcVars, bcVars, serVars, gcVars, asVars >>

\* the next statement of the handler raises
CliStageRaises ==
    /\ cli_pc = "loaded"
    /\ Len(cli_trace) <= Len(Stages(command))
    /\ NextStage \in CanRaise
    /\ cli_trace' = Append(cli_trace, NextStage)
    /\ cli_error' = NextStage
    /\ cli_pc' = "error"
    /\ UNCHANGED << command, config_data, seed_arg, cli_config >>
    /\ UNCHANGED << selVars, fcVars, bcVars, serVars, gcVars, asVars >>

\* return 0
CliReturn ==
    /\ cli_pc = "loaded"
    /\ Len(cli_trace) > Len(Stages(command))
    /\ cli_pc' = "exit"
    /\ UNCHANGED << command, config_data, seed_arg, cli_trace, cli_config, cli_error >>
    /\ UNCHANGED << selVars, fcVars, bcVars, serVars, gcVars, asVars >>

NextCli ==
    \/ CliLoadConfig
    \/ CliStage
    \/ CliStageRaises
    \/ CliReturn

InitCli == SelIdle /\ CliInit /\ FcIdle /\ BcIdle /\ SerIdle /\ GcIdle /\ AsIdle

SpecCli == InitCli /\ [][NextCli]_vars

-----------------------------------------------------------------------------
(* Properties of Config.validate and of the command handlers *)

\* what the Config schema asks of a Config
WeightsWellFormed(cfg) ==
    /\ DOMAIN cfg.weights # {}
    /\ WeightTotal(cfg.weights) > WeightOne - WeightTolerance
    /\ WeightTotal(cfg.weights) < WeightOne + WeightTolerance
    /\ DOMAIN cfg.weights \subseteq DOMAIN DEFAULT_WEIGHTS

ClipRangeWellFormed(cfg) ==
    cfg.clip_min > 0 /\ cfg.clip_max > 0 /\ cfg.clip_min <= cfg.clip_max

TargetRangeWellFormed(cfg) ==
    Len(cfg.target_range) = 2 /\ cfg.target_range[1] <= cfg.target_range[2]

RatioWellFormed(cfg) ==
    /\ cfg.diversity.max_per_cam_ratio.num > 0
    /\ cfg.diversity.max_per_cam_ratio.num <= cfg.diversity.max_per_cam_ratio.den

DeliverablesWellFormed(cfg) ==
    \A i \in 1..Len(cfg.deliverables) : cfg.deliverables[i] \in {"9:16", "1:1", "16:9"}

SchemaHolds(cfg) ==
    /\ WeightsWellFormed(cfg)
    /\ ClipRangeWellFormed(cfg)
    /\ TargetRangeWellFormed(cfg)
    /\ RatioWellFormed(cfg)
    /\ DeliverablesWellFormed(cfg)

Validated == cli_pc # "start" /\ cli_pc # "idle"

\* C8: a Config that violates one of the schema's conditions is refused by
\* validate, and a Config that validate lets through satisfies them all.
C8_ValidateEnforcesSchema ==
    Validated =>
        /\ ~SchemaHolds(BuiltConfig(config_data)) => cli_error # ""
        /\ (Len(cli_trace) = 1 /\ cli_error = "") => SchemaHolds(cli_config)

\* C8 witness: validate refused a Config whose only fault is a deliverable
\* outside the enumerated set.
C8_Witness ==
    /\ cli_pc = "error"
    /\ cli_error = "Unsupported deliverable ratios"
    /\ WeightsWellFormed(cli_config)
    /\ ClipRangeWellFormed(cli_config)
    /\ TargetRangeWellFormed(cli_config)
    /\ RatioWellFormed(cli_config)
    /\ ~DeliverablesWellFormed(cli_config)

\* C9: in every command the configuration is loaded and validated first; with
\* a configuration that validate refuses no other stage is ever entered.
C9_ConfigFirst ==
    /\ Len(cli_trace) >= 1 => cli_trace[1] = "load_config"
    /\ Len(cli_trace) >= 2 => Validate(BuiltConfig(config_data)) = ""
    /\ (Validated /\ Validate(BuiltConfig(config_data)) # "") =>
            cli_pc = "error" /\ cli_trace = << "load_config" >>

\* C9 witness: the pipeline command failed on an invalid configuration with
\* load_config the only stage entered.
C9_Witness ==
    /\ command = "pipeline"
    /\ cli_pc = "error"
    /\ Validate(BuiltConfig(config_data)) # ""
    /\ cli_trace = << "load_config" >>

(***************************************************************************)
(* render/ffmpeg_cmd.py: build_filter_complex.  A label is the string the  *)
(* code formats between brackets; a line of the graph is a record of its   *)
(* input labels, its filter, the numbers formatted into it and its output  *)
(* labels; the graph is the sequence of lines that ";".join puts together. *)
(***************************************************************************)
MaxSegs == 3

Width == 1080
Height == 1920

Line(ins, filter, args, outs) ==
    [ins |-> ins, filter |-> filter, args |-> args, outs |-> outs]

\* audio_flags = source_audio or {i: True for i in range(inputs_count)}
AudioFlags(source_audio, inputs_count) ==
    IF DOMAIN source_audio = {}
    THEN [i \in 0..(inputs_count - 1) |-> TRUE]
    ELSE source_audio

\* audio_flags.get(idx, True)
AudioFlag(audio_flags, input) ==
    IF input \in DOMAIN audio_flags THEN audio_flags[input] ELSE TRUE

\* usage_counts.get(idx, 0)
UsageCount(segments, input) ==
    Cardinality({k \in 1..Len(segments) : segments[k].src_index = input})

\* v_labels / a_labels of one input: the base label, or count split labels
BranchLabels(kind, input, count) ==
    IF count > 1
    THEN [n \in 1..count |-> kind \o ToString(input) \o "b" \o ToString(n - 1)]
    ELSE << kind \o ToString(input) \o "base" >>

\* the lines one iteration of `for idx in range(inputs_count)` appends
BranchLinesOf(a, input) ==
    LET count == UsageCount(a.segments, input)
        flags == AudioFlags(a.source_audio, a.inputs_count)
        base_v == "v" \o ToString(input) \o "base"
        base_a == "a" \o ToString(input) \o "base"
        video == << Line(<< ToString(input) \o ":v" >>, "setsar", << 1 >>, << base_v >>) >>
                 \o (IF count > 1
                     THEN << Line(<< base_v >>, "split", << count >>,
                                  BranchLabels("v", input, count)) >>
                     ELSE << >>)
        audio == IF AudioFlag(flags, input)
                 THEN << Line(<< ToString(input) \o ":a" >>, "aresample", << 48000 >>,
                              << base_a >>) >>
                      \o (IF count > 1
                          THEN << Line(<< base_a >>, "asplit", << count >>,
                                       BranchLabels("a", input, count)) >>
                          ELSE << >>)
                 ELSE << >>
    IN  IF count = 0 THEN << >> ELSE video \o audio

RECURSIVE BranchLines(_, _)
BranchLines(a, upto) ==
    IF upto = 0 THEN << >>
    ELSE BranchLines(a, upto - 1) \o BranchLinesOf(a, upto - 1)

\* the inputs that get branches: those the segments use
UsedInputs(a) ==
    {i \in 0..(a.inputs_count - 1) : UsageCount(a.segments, i) > 0}

VideoBranches(a) ==
    [i \in UsedInputs(a) |-> BranchLabels("v", i, UsageCount(a.segments, i))]

AudioBranches(a) ==
    [i \in UsedInputs(a) |->
        IF AudioFlag(AudioFlags(a.source_audio, a.inputs_count), i)
        THEN BranchLabels("a", i, UsageCount(a.segments, i))
        ELSE << >>]

\* an end that is taken as stored, without `if end < start: end = start`
SegEndAsStored(seg) == seg.out

\* start and end of a segment after `if end < start: end = start`
SegStart(seg) == seg.in
SegEnd(seg) == IF seg.out < seg.in THEN seg.in ELSE seg.out
SegDuration(seg) == Max2(0, SegEnd(seg) - SegStart(seg))

\* a segment loop that synthesizes silence whatever the policy says
SegmentErrorLenient(a, v_branches, a_branches, seg) ==
    IF seg.src_index \notin DOMAIN v_branches \/ v_branches[seg.src_index] = << >>
    THEN "No video branches for input"
    ELSE ""

\* the error one iteration of the segment loop raises, "" when it raises none
SegmentError(a, v_branches, a_branches, seg) ==
    LET src_idx == seg.src_index
        flags == AudioFlags(a.source_audio, a.inputs_count)
    IN  IF src_idx \notin DOMAIN v_branches \/ v_branches[src_idx] = << >>
        THEN "No video branches for input"
        ELSE IF AudioFlag(flags, src_idx)
        THEN IF src_idx \notin DOMAIN a_branches \/ a_branches[src_idx] = << >>
             THEN "No audio branches for input"
             ELSE ""
        ELSE IF a.synth_silence_for_missing_audio
             THEN ""
             ELSE "Input has no audio and silence synthesis disabled"

\* the lines one iteration of the segment loop appends; pos is the idx of enumerate
SegmentLines(a, pos, seg, v_branch, a_branch) ==
    LET flags == AudioFlags(a.source_audio, a.inputs_count)
        trim_label == "vtrim" \o ToString(pos)
        span == << Round3(SegStart(seg)), Round3(SegEnd(seg)) >>
    IN  << Line(<< v_branch >>, "trim", span, << trim_label >>),
           Line(<< trim_label >>, "scale", << a.width, a.height >>,
                << "v" \o ToString(pos) >>),
           IF AudioFlag(flags, seg.src_index)
           THEN Line(<< a_branch >>, "atrim", span, << "a" \o ToString(pos) >>)
           ELSE Line(<< >>, "anullsrc", << Round3(SegDuration(seg)) >>,
                     << "a" \o ToString(pos) >>) >>

\* a pick that ignores the cursor and always takes the first branch
PickFirstBranch(branch_list, cursor) == branch_list[1]

\* v_branch_list[video_cursor[src_idx]], a_branch_list[audio_cursor[src_idx]]
PickBranch(branch_list, cursor) == branch_list[cursor + 1]

\* concat_inputs.append(f"[v{idx}][a{idx}]")
ConcatPair(pos) == << "v" \o ToString(pos), "a" \o ToString(pos) >>

\* a concat whose arity counts the inputs in use instead of the segments
ConcatLinePerInput(segments, inputs) ==
    Line(inputs, "concat",
         << Cardinality({segments[k].src_index : k \in 1..Len(segments)}), 1, 1 >>,
         << "vcat", "acat" >>)

\* f"{''.join(concat_inputs)}concat=n={len(segments)}:v=1:a=1[vcat][acat]"
ConcatLine(segments, inputs) ==
    Line(inputs, "concat", << Len(segments), 1, 1 >>, << "vcat", "acat" >>)

\* output lines that leave the logo out and normalize before the format
OutputLinesNoOverlay(a) ==
    << Line(<< "acat" >>, IF a.loudnorm THEN "loudnorm" ELSE "anorm", << >>,
            << "aout" >>),
       Line(<< "vcat" >>, "format", << >>, << "vout" >>) >>

\* the lines after the concat: overlay, format, loudnorm or anorm
OutputLines(a) ==
    (IF a.logo_idx # << >>
     THEN << Line(<< "vcat", ToString(a.logo_idx[1]) >>, "overlay", << >>, << "vo" >>),
             Line(<< "vo" >>, "format", << >>, << "vout" >>) >>
     ELSE << Line(<< "vcat" >>, "format", << >>, << "vout" >>) >>)
    \o << Line(<< "acat" >>, IF a.loudnorm THEN "loudnorm" ELSE "anorm", << >>,
               << "aout" >>) >>

(***************************************************************************)
(* Arguments of build_filter_complex: segment lists of up to MaxSegs       *)
(* segments over two sources, among them a segment whose out precedes its  *)
(* in and one with sub-millisecond times; one or two inputs; with and      *)
(* without a logo input; audio maps that are absent, complete, partial, or *)
(* that mark an input as silent.  logo_idx is << >> for None.              *)
(***************************************************************************)
SegmentChoices ==
    { [src_index |-> s, in |-> t[1], out |-> t[2]] :
        s \in 0..1,
        t \in { << Sec(1), Sec(2) >>, << Sec(3), Ms(2500) >>, << Us(400), Us(1000600) >> } }

SegmentLists == UNION { [1..n -> SegmentChoices] : n \in 0..MaxSegs }

SourceAudioChoices ==
    { [i \in {} |-> TRUE],
      [i \in 0..1 |-> TRUE],
      [i \in 0..1 |-> i = 1],
      [i \in {1} |-> FALSE] }

FcArguments ==
    { [ segments |-> segs, inputs_count |-> n, logo_idx |-> logo,
        width |-> Width, height |-> Height, source_audio |-> sa,
        loudnorm |-> ln, synth_silence_for_missing_audio |-> synth ] :
        segs \in SegmentLists, n \in 1..2, logo \in { << >>, << 2 >> },
        sa \in SourceAudioChoices, ln \in BOOLEAN, synth \in BOOLEAN }

\* build_filter_complex is called with some arguments
FcInit ==
    /\ fc_args \in FcArguments
    /\ fc_pc = "start"
    /\ lines = << >>
    /\ video_branches = NoBranches
    /\ audio_branches = NoBranches
    /\ video_cursor = NoCursor
    /\ audio_cursor = NoCursor
    /\ concat_inputs = << >>
    /\ seg_idx = 0
    /\ fc_result = NoGraph

\* lines 231-305: the branches of every input in use, and the cursors
FcBranches ==
    /\ fc_pc = "start"
    /\ lines' = BranchLines(fc_args, fc_args.inputs_count)
    /\ video_branches' = VideoBranches(fc_args)
    /\ audio_branches' = AudioBranches(fc_args)
    /\ video_cursor' = [i \in DOMAIN VideoBranches(fc_args) |-> 0]
    /\ audio_cursor' = [i \in DOMAIN AudioBranches(fc_args) |-> 0]
    /\ concat_inputs' = << >>
    /\ seg_idx' = 0
    /\ fc_pc' = "loop"
    /\ UNCHANGED << fc_args, fc_result, selVars, cliVars, bcVars, serVars, gcVars, asVars >>

\* lines 307-373: one iteration of the segment loop that raises nothing
FcSegment ==
    /\ fc_pc = "loop"
    /\ seg_idx < Len(fc_args.segments)
    /\ LET seg == fc_args.segments[seg_idx + 1]
           src_idx == seg.src_index
           has_audio == AudioFlag(AudioFlags(fc_args.source_audio,
                                             fc_args.inputs_count), src_idx)
       IN  /\ SegmentError(fc_args, video_branches, audio_branches, seg) = ""
           /\ video_cursor[src_idx] < Len(video_branches[src_idx])
           /\ has_audio => audio_cursor[src_idx] < Len(audio_branches[src_idx])
           /\ lines' = lines \o
                SegmentLines(fc_args, seg_idx, seg,
                    PickBranch(video_branches[src_idx], video_cursor[src_idx]),
                    IF has_audio
                    THEN PickBranch(audio_branches[src_idx], audio_cursor[src_idx])
                    ELSE "")
           /\ video_cursor' = [video_cursor EXCEPT ![src_idx] = @ + 1]
           /\ audio_cursor' = IF has_audio
                              THEN [audio_cursor EXCEPT ![src_idx] = @ + 1]
                              ELSE audio_cursor
           /\ concat_inputs' = concat_inputs \o ConcatPair(seg_idx)
    /\ seg_idx' = seg_idx + 1
    /\ UNCHANGED << fc_args, fc_pc, video_branches, audio_branches, fc_result,
                    selVars, cliVars, bcVars, serVars, gcVars, asVars >>

\* lines 323-325, 345-347, 369-371: an iteration of the segment loop raises
FcSegmentRaises ==
    /\ fc_pc = "loop"
    /\ seg_idx < Len(fc_args.segments)
    /\ SegmentError(fc_args, video_branches, audio_branches,
                    fc_args.segments[seg_idx + 1]) # ""
    /\ fc_result' = [NoGraph EXCEPT !.error =
            SegmentError(fc_args, video_branches, audio_branches,
                         fc_args.segments[seg_idx + 1])]
    /\ fc_pc' = "raised"
    /\ UNCHANGED << fc_args, lines, video_branches, audio_branches, video_cursor,
                    audio_cursor, concat_inputs, seg_idx, selVars, cliVars, bcVars, serVars, gcVars, asVars >>

\* lines 375-403: the concat, the overlay, the output lines, and the return
FcFinish ==
    /\ fc_pc = "loop"
    /\ seg_idx = Len(fc_args.segments)
    /\ lines' = lines \o << ConcatLine(fc_args.segments, concat_inputs) >>
                      \o OutputLines(fc_args)
    /\ fc_result' = [ graph |-> lines', video_label |-> "vout",
                      audio_label |-> "aout", error |-> "" ]
    /\ fc_pc' = "done"
    /\ UNCHANGED << fc_args, video_branches, audio_branches, video_cursor,
                    audio_cursor, concat_inputs, seg_idx, selVars, cliVars, bcVars, serVars, gcVars, asVars >>

NextGraph == FcBranches \/ FcSegment \/ FcSegmentRaises \/ FcFinish

InitGraph == SelIdle /\ CliIdle /\ FcInit /\ BcIdle /\ SerIdle /\ GcIdle /\ AsIdle

SpecGraph == InitGraph /\ [][NextGraph]_vars

(***************************************************************************)
(* build_filter_complex as a function of its arguments: what the steps     *)
(* above add up to, for the callers that use its value.                    *)
(***************************************************************************)
\* the cursor of a source when the segment at pos (from 0) is reached
CursorAt(segments, pos) ==
    Cardinality({k \in 1..pos : segments[k].src_index = segments[pos + 1].src_index})

FirstError(a) ==
    LET failing == {i \in 1..Len(a.segments) :
                       SegmentError(a, VideoBranches(a), AudioBranches(a),
                                    a.segments[i]) # ""}
    IN  IF failing = {} THEN ""
        ELSE SegmentError(a, VideoBranches(a), AudioBranches(a),
                          a.segments[CHOOSE i \in failing : \A j \in failing : i <= j])

BuildFilterComplex(a) ==
    IF FirstError(a) # "" THEN [NoGraph EXCEPT !.error = FirstError(a)]
    ELSE [ graph |->
             BranchLines(a, a.inputs_count)
             \o Flatten([i \in 1..Len(a.segments) |->
                    LET seg == a.segments[i]
                        cursor == CursorAt(a.segments, i - 1)
                    IN  SegmentLines(a, i - 1, seg,
                            PickBranch(VideoBranches(a)[seg.src_index], cursor),
                            IF AudioFlag(AudioFlags(a.source_audio, a.inputs_count),
                                         seg.src_index)
                            THEN PickBranch(AudioBranches(a)[seg.src_index], cursor)
                            ELSE "")])
             \o << ConcatLine(a.segments,
                              Flatten([i \in 1..Len(a.segments) |-> ConcatPair(i - 1)])) >>
             \o OutputLines(a),
           video_label |-> "vout", audio_label |-> "aout", error |-> "" ]

\* the steps of build_filter_complex arrive at the value of the function
StepsAgree ==
    fc_pc \in {"done", "raised"} => fc_result = BuildFilterComplex(fc_args)

(***************************************************************************)
(* render/ffmpeg_cmd.py: build_commands, _build_single_command and         *)
(* _has_audio_stream, called on the EDL select_segments returned, as the   *)
(* pipeline command does.  A process may call build_commands more than     *)
(* once; what lru_cache memoized stays until the process ends.             *)
(***************************************************************************)
MaxBuilds == 2

\* ASPECT_DIMENSIONS.get(ratio); << >> is None
AspectDimensions(ratio) ==
    CASE ratio = "9:16" -> << 1080, 1920 >>
      [] ratio = "1:1" -> << 1080, 1080 >>
      [] ratio = "16:9" -> << 1920, 1080 >>
      [] OTHER -> << >>

\* ratio.replace(':', 'x') of _derive_output_path
RatioSuffix(ratio) ==
    CASE ratio = "9:16" -> "9x16"
      [] ratio = "1:1" -> "1x1"
      [] ratio = "16:9" -> "16x9"
      [] OTHER -> ratio

\* list(dict.fromkeys(seg.src for seg in segments))
RECURSIVE OrderedSources(_)
OrderedSources(segments) ==
    IF segments = << >> THEN << >>
    ELSE LET before == OrderedSources(SubSeq(segments, 1, Len(segments) - 1))
             src == segments[Len(segments)].src
         IN  IF \E i \in 1..Len(before) : before[i] = src THEN before
             ELSE Append(before, src)

\* input_map[src]
InputIndex(ordered_sources, src) ==
    (CHOOSE i \in 1..Len(ordered_sources) : ordered_sources[i] = src) - 1

\* Path(branding.logo_path).exists(): of the logo files named here only
\* logo.png is on disk
LogoExists(logo_path) == logo_path = "logo.png"

\* _has_audio_stream(src) under lru_cache: the memoized answer if there is
\* one, what ffprobe answers now if not
HasAudioStream(cache, world, src) ==
    IF src \in DOMAIN cache THEN cache[src] ELSE world[src]

\* the sources _has_audio_stream runs ffprobe on, in order
Probed(cache, ordered_sources) ==
    SelectSeq(ordered_sources, LAMBDA src : src \notin DOMAIN cache)

\* lru_cache after the lookups of one _build_single_command
CacheAfter(cache, world, ordered_sources) ==
    [src \in DOMAIN cache \cup {ordered_sources[i] : i \in 1..Len(ordered_sources)} |->
        HasAudioStream(cache, world, src)]

\* the arguments _build_single_command passes to build_filter_complex
FilterArguments(segments, branding, dims, cache, world) ==
    LET ordered_sources == OrderedSources(segments)
    IN  [ segments |->
            [i \in 1..Len(segments) |->
                [ src_index |-> InputIndex(ordered_sources, segments[i].src),
                  in |-> segments[i].start,
                  out |-> segments[i].end ]],
          inputs_count |-> Len(ordered_sources),
          logo_idx |-> IF branding.logo_path # None /\ LogoExists(branding.logo_path)
                       THEN << Len(ordered_sources) >> ELSE << >>,
          width |-> dims[1],
          height |-> dims[2],
          source_audio |->
            [i \in 0..(Len(ordered_sources) - 1) |->
                HasAudioStream(cache, world, ordered_sources[i + 1])],
          loudnorm |-> TRUE,
          synth_silence_for_missing_audio |-> TRUE ]

\* _build_single_command: the inputs, the graph with its two labels, the output
BuildSingleCommand(segments, branding, dims, ratio, cache, world) ==
    LET a == FilterArguments(segments, branding, dims, cache, world)
    IN  [ inputs |-> OrderedSources(segments)
                     \o (IF a.logo_idx # << >> THEN << branding.logo_path >> ELSE << >>),
          filter_complex |-> BuildFilterComplex(a),
          output |-> RatioSuffix(ratio) ]

\* the configurations of the pipeline: deliverables and a logo are added to
\* some configurations of the selection
PipelineConfigs ==
    { [c EXCEPT !.deliverables = d[1], !.branding.logo_path = d[2]] :
        c \in { TestConfig,
                [TestConfig EXCEPT !.max_duration = Ms(3500),
                                   !.diversity.max_per_cam_ratio = Ratio(1, 1),
                                   !.diversity.min_gap_same_cam = 0] },
        d \in { << << "9:16" >>, None >>,
                << << "9:16", "1:1", "16:9" >>, "logo.png" >>,
                << << "4:3", "16:9" >>, "missing.png" >> } }

\* the candidate mappings of the pipeline: at most MaxPipelineCands candidates
MaxPipelineCands == 2

PipelineMappings ==
    { m \in Mappings :
        Len(Flatten([k \in 1..Len(m) |-> m[k].clips])) <= MaxPipelineCands }

\* build_commands has not been called in this process; ffprobe finds audio in
\* some of the sources
BcInit ==
    /\ bc_pc = "idle"
    /\ bc_edl = None
    /\ commands = NoCommands
    /\ ratio_idx = 1
    /\ bc_error = ""
    /\ bc_run = 0
    /\ audio_cache = NoCache
    /\ audio_world \in [{"camA.mp4", "camB.mp4"} -> BOOLEAN]
    /\ probes = << >>

BcFinished == bc_pc \in {"done", "raised"}

\* a build_commands without the check of lines 31-33: an EDL that has no
\* segments enters the loop over the deliverables
BcAcceptEmpty ==
    /\ pc = "done"
    /\ bc_pc = "idle" \/ (BcFinished /\ bc_run < MaxBuilds)
    /\ result.edl.segments = << >>
    /\ bc_edl' = result.edl
    /\ bc_run' = bc_run + 1
    /\ commands' = NoCommands
    /\ ratio_idx' = 1
    /\ probes' = << >>
    /\ bc_error' = ""
    /\ bc_pc' = "loop"
    /\ UNCHANGED << audio_cache, audio_world, selVars, cliVars, fcVars, serVars, gcVars, asVars >>

\* lines 27-33: build_commands is called on the EDL of select_segments, which
\* has no segments
BcRaiseEmpty ==
    /\ pc = "done"
    /\ bc_pc = "idle" \/ (BcFinished /\ bc_run < MaxBuilds)
    /\ result.edl.segments = << >>
    /\ bc_edl' = result.edl
    /\ bc_run' = bc_run + 1
    /\ commands' = NoCommands
    /\ ratio_idx' = 1
    /\ probes' = << >>
    /\ bc_error' = "EDL contains no segments to render"
    /\ bc_pc' = "raised"
    /\ UNCHANGED << audio_cache, audio_world, selVars, cliVars, fcVars, serVars, gcVars, asVars >>

\* lines 27-35: build_commands is called on an EDL with segments
BcBegin ==
    /\ pc = "done"
    /\ bc_pc = "idle" \/ (BcFinished /\ bc_run < MaxBuilds)
    /\ result.edl.segments # << >>
    /\ bc_edl' = result.edl
    /\ bc_run' = bc_run + 1
    /\ commands' = NoCommands
    /\ ratio_idx' = 1
    /\ probes' = << >>
    /\ bc_error' = ""
    /\ bc_pc' = "loop"
    /\ UNCHANGED << audio_cache, audio_world, selVars, cliVars, fcVars, serVars, gcVars, asVars >>

\* lines 37-45: a ratio without dimensions is skipped
BcSkipRatio ==
    /\ bc_pc = "loop"
    /\ ratio_idx <= Len(config.deliverables)
    /\ AspectDimensions(config.deliverables[ratio_idx]) = << >>
    /\ ratio_idx' = ratio_idx + 1
    /\ UNCHANGED << bc_pc, bc_edl, commands, bc_error, bc_run, audio_cache,
                    audio_world, probes, selVars, cliVars, fcVars, serVars, gcVars, asVars >>

\* lines 37-51: the command of one ratio, with the lookups of
\* _has_audio_stream it makes
BcBuildRatio ==
    /\ bc_pc = "loop"
    /\ ratio_idx <= Len(config.deliverables)
    /\ LET ratio == config.deliverables[ratio_idx]
           dims == AspectDimensions(ratio)
           cmd == BuildSingleCommand(bc_edl.segments, config.branding, dims, ratio,
                                     audio_cache, audio_world)
       IN  /\ dims # << >>
           /\ commands' = [r \in DOMAIN commands \cup {ratio} |->
                              IF r = ratio THEN cmd ELSE commands[r]]
           /\ probes' = probes \o Probed(audio_cache, OrderedSources(bc_edl.segments))
           /\ audio_cache' = CacheAfter(audio_cache, audio_world,
                                        OrderedSources(bc_edl.segments))
    /\ ratio_idx' = ratio_idx + 1
    /\ UNCHANGED << bc_pc, bc_edl, bc_error, bc_run, audio_world,
                    selVars, cliVars, fcVars, serVars, gcVars, asVars >>

\* line 53: return commands
BcReturn ==
    /\ bc_pc = "loop"
    /\ ratio_idx > Len(config.deliverables)
    /\ bc_pc' = "done"
    /\ UNCHANGED << bc_edl, commands, ratio_idx, bc_error, bc_run, audio_cache,
                    audio_world, probes, selVars, cliVars, fcVars, serVars, gcVars, asVars >>

\* between two calls a source file is replaced: ffprobe now answers otherwise
AudioChanges ==
    /\ BcFinished
    /\ bc_run < MaxBuilds
    /\ \E src \in DOMAIN audio_world :
            audio_world' = [audio_world EXCEPT ![src] = ~@]
    /\ UNCHANGED << bc_pc, bc_edl, commands, ratio_idx, bc_error, bc_run,
                    audio_cache, probes, selVars, cliVars, fcVars, serVars, gcVars, asVars >>

NextPipeline ==
    \/ ReturnEmpty
    \/ BeginSelection
    \/ LoopContinue
    \/ LoopBreak
    \/ LoopAccept
    \/ Return
    \/ BcRaiseEmpty
    \/ BcBegin
    \/ BcSkipRatio
    \/ BcBuildRatio
    \/ BcReturn
    \/ AudioChanges

\* select_segments is called with a configuration of the pipeline
InitPipeline ==
    /\ config \in PipelineConfigs
    /\ candidates_by_src \in PipelineMappings
    /\ rng = [seed |-> 0, pos |-> 0]
    /\ pc = "call"
    /\ ordered = << >>
    /\ idx = 1
    /\ selected = << >>
    /\ total_duration = 0
    /\ camera_usage = NoUsage
    /\ last_camera_time = NoLast
    /\ trimmed = {}
    /\ result = NoResult
    /\ run = 1
    /\ outputs = << >>
    /\ CliIdle
    /\ FcIdle
    /\ BcInit
    /\ SerIdle
    /\ GcIdle
    /\ AsIdle

SpecPipeline == InitPipeline /\ [][NextPipeline]_vars

(***************************************************************************)
(* Properties of the graph build_filter_complex returns.                   *)
(***************************************************************************)
Returned == fc_pc = "done"

ConcatNodes(graph) == {k \in 1..Len(graph) : graph[k].filter = "concat"}

\* the lines of the graph that produce a label
Producers(graph, label) ==
    {k \in 1..Len(graph) : \E j \in 1..Len(graph[k].outs) : graph[k].outs[j] = label}

\* the labels [v0][a0][v1][a1]... of n segments
RECURSIVE PairLabels(_)
PairLabels(n) == IF n = 0 THEN << >> ELSE PairLabels(n - 1) \o ConcatPair(n - 1)

\* the input pad a label is fed from, following first inputs upstream
RECURSIVE PadOf(_, _)
PadOf(graph, label) ==
    IF Producers(graph, label) = {} THEN label
    ELSE LET k == CHOOSE p \in Producers(graph, label) : TRUE
         IN  IF graph[k].ins = << >> THEN graph[k].filter
             ELSE PadOf(graph, graph[k].ins[1])

\* labels v{i} and a{i} carry the i-th segment of the list: its span, cut
\* from its own source (or silence of its length where the source is silent)
CarriesSegment(graph, i, seg) ==
    LET v == "v" \o ToString(i)
        a == "a" \o ToString(i)
        span == << Round3(SegStart(seg)), Round3(SegEnd(seg)) >>
    IN  /\ Cardinality(Producers(graph, v)) = 1
        /\ Cardinality(Producers(graph, a)) = 1
        /\ PadOf(graph, v) = ToString(seg.src_index) \o ":v"
        /\ \E k \in Producers(graph, "vtrim" \o ToString(i)) :
                graph[k].filter = "trim" /\ graph[k].args = span
        /\ \A k \in Producers(graph, a) :
                \/ /\ graph[k].filter = "atrim"
                   /\ graph[k].args = span
                   /\ PadOf(graph, a) = ToString(seg.src_index) \o ":a"
                \/ /\ graph[k].filter = "anullsrc"
                   /\ graph[k].args = << Round3(SegDuration(seg)) >>

\* C10: the graph returned for a non-empty segment list has exactly one
\* concat node, its arity n is the number of segments, and its inputs are
\* the pairs [v0][a0][v1][a1]... where v{i} and a{i} carry the i-th segment.
C10_SingleConcat ==
    (Returned /\ Len(fc_args.segments) >= 1) =>
        LET graph == fc_result.graph
            n == Len(fc_args.segments)
        IN  /\ Cardinality(ConcatNodes(graph)) = 1
            /\ \A k \in ConcatNodes(graph) :
                    /\ graph[k].args = << n, 1, 1 >>
                    /\ graph[k].ins = PairLabels(n)
            /\ \A i \in 1..n : CarriesSegment(graph, i - 1, fc_args.segments[i])

\* C10 witness: a graph was returned for three segments that take the
\* sources in the order 0, 1, 0, the second source being silent.
C10_Witness ==
    /\ Returned
    /\ Len(fc_args.segments) = 3
    /\ fc_args.segments[1].src_index = 0
    /\ fc_args.segments[2].src_index = 1
    /\ fc_args.segments[3].src_index = 0
    /\ fc_args.inputs_count = 2
    /\ \E k \in 1..Len(fc_result.graph) : fc_result.graph[k].filter = "anullsrc"
    /\ \E k \in ConcatNodes(fc_result.graph) :
            fc_result.graph[k].ins = << "v0", "a0", "v1", "a1", "v2", "a2" >>

\* the places of the graph where a label is consumed: line k, input j
Consumers(graph, label) ==
    {p \in (1..Len(graph)) \X (1..4) :
        p[2] <= Len(graph[p[1]].ins) /\ graph[p[1]].ins[p[2]] = label}

\* the positions (from 0) of the segments that reference an input, in order
RECURSIVE PositionsOf(_, _)
PositionsOf(segments, input) ==
    IF segments = << >> THEN << >>
    ELSE PositionsOf(SubSeq(segments, 1, Len(segments) - 1), input)
         \o (IF segments[Len(segments)].src_index = input
             THEN << Len(segments) - 1 >> ELSE << >>)

\* the split of an input into N branches, each consumed once, the k-th
\* by the stage (trim or atrim) of the k-th segment that references the input
SplitInOrder(graph, segments, input, kind, splitter, stage, out) ==
    LET base == kind \o ToString(input) \o "base"
        positions == PositionsOf(segments, input)
        N == Len(positions)
        splits == {k \in 1..Len(graph) :
                      graph[k].filter = splitter /\ graph[k].ins = << base >>}
    IN  /\ Cardinality(splits) = 1
        /\ \A s \in splits :
            /\ graph[s].args = << N >>
            /\ Len(graph[s].outs) = N
            /\ \A i, j \in 1..N : i # j => graph[s].outs[i] # graph[s].outs[j]
            /\ \A k \in 1..N :
                /\ Cardinality(Producers(graph, graph[s].outs[k])) = 1
                /\ Cardinality(Consumers(graph, graph[s].outs[k])) = 1
                /\ \A p \in Consumers(graph, graph[s].outs[k]) :
                    /\ graph[p[1]].filter = stage
                    /\ graph[p[1]].outs = << out \o ToString(positions[k]) >>

InputHasAudio(input) ==
    AudioFlag(AudioFlags(fc_args.source_audio, fc_args.inputs_count), input)

\* C11: in the returned graph an input referenced by N > 1 segments is split
\* into exactly N video branches (and N audio branches when it has audio);
\* the k-th segment referencing it consumes its k-th branch, so that every
\* branch is consumed exactly once.
C11_BranchPerSegment ==
    Returned =>
        \A input \in 0..(fc_args.inputs_count - 1) :
            UsageCount(fc_args.segments, input) > 1 =>
                /\ SplitInOrder(fc_result.graph, fc_args.segments, input,
                                "v", "split", "trim", "vtrim")
                /\ InputHasAudio(input) =>
                       SplitInOrder(fc_result.graph, fc_args.segments, input,
                                    "a", "asplit", "atrim", "a")

\* C11 witness: a graph was returned for the interleaving 0, 1, 0 of two
\* sources with audio, the first one split in two.
C11_Witness ==
    /\ Returned
    /\ Len(fc_args.segments) = 3
    /\ fc_args.segments[1].src_index = 0
    /\ fc_args.segments[2].src_index = 1
    /\ fc_args.segments[3].src_index = 0
    /\ InputHasAudio(0) /\ InputHasAudio(1)
    /\ \E k \in 1..Len(fc_result.graph) :
            /\ fc_result.graph[k].filter = "asplit"
            /\ fc_result.graph[k].outs = << "a0b0", "a0b1" >>
    /\ \E k \in 1..Len(fc_result.graph) :
            /\ fc_result.graph[k].filter = "trim"
            /\ fc_result.graph[k].ins = << "v0b1" >>
            /\ fc_result.graph[k].outs = << "vtrim2" >>

\* the stages of segment i (from 0) in the graph: one trim with the given
\* span feeding the one stage that produces [v i], and one stage producing
\* [a i], an atrim with the same span or silence of the given length
StagesOf(graph, i, has_audio, span, silence) ==
    LET v == "v" \o ToString(i)
        a == "a" \o ToString(i)
        vtrim == "vtrim" \o ToString(i)
        trims == {k \in 1..Len(graph) :
                     graph[k].filter = "trim" /\ graph[k].outs = << vtrim >>}
    IN  /\ Cardinality(trims) = 1
        /\ \A k \in trims : graph[k].args = span
        /\ Cardinality(Producers(graph, vtrim)) = 1
        /\ Cardinality(Producers(graph, v)) = 1
        /\ \A k \in Producers(graph, v) :
                graph[k].filter = "scale" /\ graph[k].ins = << vtrim >>
        /\ Cardinality(Producers(graph, a)) = 1
        /\ \A k \in Producers(graph, a) :
                IF has_audio
                THEN graph[k].filter = "atrim" /\ graph[k].args = span
                ELSE graph[k].filter = "anullsrc" /\ graph[k].args = << silence >>

\* C12 as stated: the trim of each segment spans the segment's start and end
\* to 3 decimals, and silence lasts end - start.
C12_StagesPerSegment ==
    Returned =>
        \A i \in 1..Len(fc_args.segments) :
            LET seg == fc_args.segments[i]
            IN  StagesOf(fc_result.graph, i - 1, InputHasAudio(seg.src_index),
                         << Round3(seg.in), Round3(seg.out) >>,
                         Round3(seg.out - seg.in))

\* C12: the trim of each segment spans its start and the later of its start
\* and end, to 3 decimals; the audio stage is an atrim over the same span, or
\* silence lasting max(0, end - start) to 3 decimals, which is the length of
\* the trim's span when start and end are whole milliseconds.
C12_StagesPerSegmentClamped ==
    Returned =>
        \A i \in 1..Len(fc_args.segments) :
            LET seg == fc_args.segments[i]
                last == Max2(seg.in, seg.out)
                silence == Round3(Max2(0, seg.out - seg.in))
            IN  /\ StagesOf(fc_result.graph, i - 1, InputHasAudio(seg.src_index),
                            << Round3(seg.in), Round3(last) >>, silence)
                /\ (seg.in % TimeQuantum = 0 /\ seg.out % TimeQuantum = 0) =>
                        silence = Round3(last) - Round3(seg.in)

\* C12 witness: a graph was returned for a silent source with a segment
\* whose end precedes its start, trimmed to an empty span with no silence.
C12_Witness ==
    /\ Returned
    /\ \E i \in 1..Len(fc_args.segments) :
        /\ fc_args.segments[i].out < fc_args.segments[i].in
        /\ ~InputHasAudio(fc_args.segments[i].src_index)
        /\ \E k \in Producers(fc_result.graph, "vtrim" \o ToString(i - 1)) :
                fc_result.graph[k].args = << Sec(3), Sec(3) >>
        /\ \E k \in Producers(fc_result.graph, "a" \o ToString(i - 1)) :
                fc_result.graph[k].filter = "anullsrc" /\ fc_result.graph[k].args = << 0 >>

\* the positions (from 1) of the segments whose source has no audio stream
SilentSegments ==
    {i \in 1..Len(fc_args.segments) : ~InputHasAudio(fc_args.segments[i].src_index)}

\* every segment refers to one of the inputs
SourcesInRange ==
    \A i \in 1..Len(fc_args.segments) :
        fc_args.segments[i].src_index \in 0..(fc_args.inputs_count - 1)

\* C14: with silence synthesis on, a call whose segments refer to its inputs
\* returns a graph in which every segment of a source without audio gets
\* silence of the segment's length; with silence synthesis off, a call with
\* such a segment raises and returns no graph.
C14_MissingAudioPolicy ==
    fc_pc \in {"done", "raised"} =>
        IF fc_args.synth_silence_for_missing_audio
        THEN /\ SourcesInRange => Returned
             /\ Returned =>
                  \A i \in SilentSegments :
                    /\ Cardinality(Producers(fc_result.graph, "a" \o ToString(i - 1))) = 1
                    /\ \A k \in Producers(fc_result.graph, "a" \o ToString(i - 1)) :
                        /\ fc_result.graph[k].filter = "anullsrc"
                        /\ fc_result.graph[k].ins = << >>
                        /\ fc_result.graph[k].args =
                              << Round3(Max2(0, fc_args.segments[i].out
                                                - fc_args.segments[i].in)) >>
        ELSE SilentSegments # {} =>
                /\ fc_pc = "raised"
                /\ fc_result.graph = << >>
                /\ fc_result.error # ""
                /\ SourcesInRange =>
                     fc_result.error = "Input has no audio and silence synthesis disabled"

\* C14 witness: with silence synthesis off, the call raised at its second
\* segment, the first one of a source without audio.
C14_Witness ==
    /\ fc_pc = "raised"
    /\ ~fc_args.synth_silence_for_missing_audio
    /\ fc_result.error = "Input has no audio and silence synthesis disabled"
    /\ seg_idx = 1
    /\ SilentSegments = {2}

(***************************************************************************)
(* Properties of build_commands in the pipeline.                           *)
(***************************************************************************)
BcCalled == bc_pc # "idle"

\* C13: build_commands called with an EDL without segments raises and holds
\* no command for any ratio, whatever the configuration; the pipeline whose
\* selection accepted nothing ends in that error, with no source probed.
C13_EmptyEdlFails ==
    (BcCalled /\ bc_edl.segments = << >>) =>
        /\ bc_pc = "raised"
        /\ bc_error = "EDL contains no segments to render"
        /\ commands = NoCommands
        /\ probes = << >>
        /\ result.edl.segments = << >>

\* C13 witness: there were candidates, the selection accepted none of them,
\* and build_commands raised under a configuration with three deliverables.
C13_Witness ==
    /\ bc_pc = "raised"
    /\ AllCandidates # << >>
    /\ result.edl.segments = << >>
    /\ Len(config.deliverables) = 3

\* the sources of the EDL that were not probed during the current call
Unprobed ==
    {src \in {bc_edl.segments[i].src : i \in 1..Len(bc_edl.segments)} :
        \A k \in 1..Len(probes) : probes[k] # src}

\* C15: every build_commands call that returns commands has run ffprobe on
\* each source of its EDL during that call; no answer memoized by an earlier
\* call stands in for a probe.
C15_ProbedInEachRun ==
    (bc_pc = "done" /\ commands # NoCommands) => Unprobed = {}

(***************************************************************************)
(* edl.py: EDL.to_dict and edl_from_dict, on EDL objects built directly    *)
(* and on dictionaries read from a file.  A dictionary is a function whose *)
(* domain is the set of keys it holds.                                     *)
(***************************************************************************)
MaxEdlSegs == 2

NoMetadata == [k \in {} |-> 0]

\* a deserialization that reads the span under start/end only
SegmentFromDictStartEnd(seg) ==
    [ src |-> seg["src"],
      start |-> Get(seg, "start", 0),
      end |-> Get(seg, "end", 0),
      score |-> Get(seg, "score", 0),
      tags |-> Get(seg, "tags", << >>),
      camera |-> Get(seg, "cam", None) ]

\* Segment(...) of edl_from_dict
SegmentFromDict(seg) ==
    [ src |-> seg["src"],
      start |-> Get(seg, "in", Get(seg, "start", 0)),
      end |-> Get(seg, "out", Get(seg, "end", 0)),
      score |-> Get(seg, "score", 0),
      tags |-> Get(seg, "tags", << >>),
      camera |-> Get(seg, "cam", None) ]

\* seg["src"] raises KeyError
LacksSrc(data) ==
    \E i \in 1..Len(Get(data, "segments", << >>)) :
        "src" \notin DOMAIN data["segments"][i]

\* edl_from_dict
EdlFromDict(data) ==
    [ project |-> Get(data, "project", "Event_Recap"),
      variant |-> Get(data, "variant", "deterministic"),
      seed |-> Get(data, "seed", 42),
      max_duration |-> Get(data, "max_duration", Sec(60)),
      clip_min |-> Get(data, "clip_min", Ms(1200)),
      clip_max |-> Get(data, "clip_max", Sec(4)),
      segments |-> [i \in 1..Len(Get(data, "segments", << >>)) |->
                      SegmentFromDict(data["segments"][i])],
      metadata |-> Get(data, "metadata", NoMetadata) ]

\* Segment objects: times and scores with more decimals than are kept, tags
\* in an order that is not alphabetical, no tags, no camera, an end before
\* the start
SegmentObjects ==
    { [ src |-> "camA.mp4", start |-> Us(400), end |-> Us(3000600),
        score |-> 900000400, tags |-> << "motion", "audio_peak" >>, camera |-> "camA" ],
      [ src |-> "camB.mp4", start |-> Sec(1), end |-> Ms(2500),
        score |-> Score(7000), tags |-> << "faces" >>, camera |-> None ],
      [ src |-> "camA.mp4", start |-> Sec(3), end |-> Sec(2),
        score |-> 123456789, tags |-> << >>, camera |-> "camA" ],
      [ src |-> "camB.mp4", start |-> Us(1000400), end |-> Us(2200400),
        score |-> Score(7000), tags |-> << "audio_peak", "motion" >>, camera |-> "camA" ],
      [ src |-> "camA.mp4", start |-> 0, end |-> Sec(3),
        score |-> Score(9000), tags |-> << "scene_novelty", "faces", "audio_peak" >>,
        camera |-> "camA" ] }

EdlObjects ==
    { [MakeEdl(TestConfig, segs) EXCEPT !.metadata = m] :
        segs \in UNION { [1..n -> SegmentObjects] : n \in 0..MaxEdlSegs },
        m \in { NoMetadata, MakeEdl(TestConfig, << >>).metadata } }

\* segments as a file may hold them: the span under in/out, under start/end,
\* under both, or missing; with and without score, tags, cam and src
SegmentDicts ==
    { [src |-> "camA.mp4", in |-> Us(400), out |-> Us(3000600), score |-> 900000400,
       tags |-> << "motion", "audio_peak" >>, cam |-> "camA"],
      [src |-> "camB.mp4", start |-> Sec(1), end |-> Ms(2500)],
      [src |-> "camA.mp4", in |-> Sec(1), start |-> Sec(5), end |-> Sec(7),
       tags |-> << "faces" >>],
      [src |-> "camB.mp4"],
      [in |-> Sec(1), out |-> Sec(2), score |-> Score(5000)] }

EdlFiles ==
    { [segments |-> segs] :
        segs \in UNION { [1..n -> SegmentDicts] : n \in 1..MaxEdlSegs } }
    \cup { NoMetadata, [project |-> "Gala", seed |-> 7] }

\* an EDL object is about to be serialized, or a file's dictionary is about
\* to be deserialized
SerInit ==
    /\ \/ ser_pc = "object" /\ ser_edl \in EdlObjects /\ ser_data = None
       \/ ser_pc = "file" /\ ser_edl = None /\ ser_data \in EdlFiles
    /\ ser_back = None
    /\ ser_again = None

\* edl.to_dict()
SerToDict ==
    /\ ser_pc = "object"
    /\ ser_data' = ToDict(ser_edl)
    /\ ser_pc' = "serialized"
    /\ UNCHANGED << ser_edl, ser_back, ser_again, selVars, cliVars, fcVars, bcVars, gcVars, asVars >>

\* edl_from_dict(data)
SerFromDict ==
    /\ ser_pc \in {"serialized", "file"}
    /\ ~LacksSrc(ser_data)
    /\ ser_back' = EdlFromDict(ser_data)
    /\ ser_pc' = IF ser_pc = "file" THEN "loaded" ELSE "restored"
    /\ UNCHANGED << ser_edl, ser_data, ser_again, selVars, cliVars, fcVars, bcVars, gcVars, asVars >>

\* edl_from_dict(data) raises KeyError on a segment without src
SerFromDictRaises ==
    /\ ser_pc \in {"serialized", "file"}
    /\ LacksSrc(ser_data)
    /\ ser_pc' = "raised"
    /\ UNCHANGED << ser_edl, ser_data, ser_back, ser_again, selVars, cliVars, fcVars,
                    bcVars, gcVars, asVars >>

\* edl_from_dict(data).to_dict()
SerToDictAgain ==
    /\ ser_pc \in {"restored", "loaded"}
    /\ ser_again' = ToDict(ser_back)
    /\ ser_pc' = IF ser_pc = "loaded" THEN "file_serialized" ELSE "reserialized"
    /\ UNCHANGED << ser_edl, ser_data, ser_back, selVars, cliVars, fcVars, bcVars, gcVars, asVars >>

NextEdl == SerToDict \/ SerFromDict \/ SerFromDictRaises \/ SerToDictAgain

InitEdl == SelIdle /\ CliIdle /\ FcIdle /\ BcIdle /\ SerInit /\ GcIdle /\ AsIdle

SpecEdl == InitEdl /\ [][NextEdl]_vars

(***************************************************************************)
(* Properties of serialization.                                            *)
(***************************************************************************)
\* C16: an EDL that went through to_dict and edl_from_dict has as many
\* segments in the same order, each with the same src, camera and tags, its
\* start and end rounded to 3 decimals and its score to 4; serializing it
\* again gives the dictionary of the first serialization.
C16_RoundTrip ==
    /\ ser_pc \in {"restored", "reserialized"} =>
        /\ Len(ser_back.segments) = Len(ser_edl.segments)
        /\ \A i \in 1..Len(ser_edl.segments) :
            /\ ser_back.segments[i].src = ser_edl.segments[i].src
            /\ ser_back.segments[i].camera = ser_edl.segments[i].camera
            /\ ser_back.segments[i].tags = ser_edl.segments[i].tags
            /\ ser_back.segments[i].start = Round3(ser_edl.segments[i].start)
            /\ ser_back.segments[i].end = Round3(ser_edl.segments[i].end)
            /\ ser_back.segments[i].score = Round4(ser_edl.segments[i].score)
    /\ ser_pc = "reserialized" => ser_again = ser_data

\* C16 witness: the round trip of an EDL without metadata whose two segments
\* lose decimals of their times and score.
C16_Witness ==
    /\ ser_pc = "reserialized"
    /\ Len(ser_edl.segments) = 2
    /\ DOMAIN ser_edl.metadata = {}
    /\ ser_edl.segments[1].start = Us(400)
    /\ ser_back.segments[1].start = 0
    /\ ser_back.segments[1].end = Us(3001000)
    /\ ser_edl.segments[2].score = 123456789
    /\ ser_back.segments[2].score = 123500000

\* C17: to_dict emits the tags of every segment in alphabetical order.
C17_TagsSorted ==
    ser_pc \in {"serialized", "restored", "reserialized"} =>
        \A i \in 1..Len(ser_data.segments) :
            ser_data.segments[i].tags =
                SortedTags({ser_edl.segments[i].tags[k] :
                               k \in 1..Len(ser_edl.segments[i].tags)})

(***************************************************************************)
(* analysis/combine.py: generate_candidates.  Times are in microseconds,   *)
(* event scores in hundredths, so that weight times event score is in the  *)
(* unit of candidate scores.  events_by_tag is the sequence of the dict's  *)
(* items; an event is a record of its time and score.                      *)
(***************************************************************************)
MaxEvents == 2

ANCHOR_TAGS == << "audio_peak", "motion" >>

MergeTolerance == 500000

\* x / 2.0
Half(x) == x \div 2

\* events_by_tag[tag], events_by_tag.get(tag, [])
EventsOf(by_tag, tag) ==
    IF \E k \in 1..Len(by_tag) : by_tag[k].tag = tag
    THEN by_tag[CHOOSE k \in 1..Len(by_tag) : by_tag[k].tag = tag].events
    ELSE << >>

\* lines 31-32: target_len
TargetLen(cfg) ==
    Max2(cfg.clip_min,
         Min2(cfg.clip_max, Half(cfg.target_range[1] + cfg.target_range[2])))

\* lines 34-36: the anchor tags that have events, else every key
AnchorTags(by_tag) ==
    LET preferred == SelectSeq(ANCHOR_TAGS, LAMBDA tag : EventsOf(by_tag, tag) # << >>)
    IN  IF preferred # << >> THEN preferred
        ELSE [k \in 1..Len(by_tag) |-> by_tag[k].tag]

\* a window cut at both source bounds around the event
ClampedWindowCentered(time, cfg, dur) ==
    << Max2(0, time - Half(TargetLen(cfg))),
       Min2(dur, time + Half(TargetLen(cfg))) >>

\* lines 46-47: the window before growth and truncation
ClampedWindow(time, cfg, dur) ==
    LET start == Max2(0, time - Half(TargetLen(cfg)))
    IN  << start, Min2(dur, start + TargetLen(cfg)) >>

\* lines 48-51: the growth of a window shorter than clip_min
GrownWindow(w, cfg, dur) ==
    IF w[2] - w[1] < cfg.clip_min
    THEN LET delta == cfg.clip_min - (w[2] - w[1])
         IN  << Max2(0, w[1] - Half(delta)), Min2(dur, w[2] + Half(delta)) >>
    ELSE w

\* lines 52-53: the truncation of a window longer than clip_max
TruncatedWindow(w, cfg) ==
    IF w[2] - w[1] > cfg.clip_max THEN << w[1], w[1] + cfg.clip_max >> ELSE w

\* the window of an anchor event after the three steps
FinalWindow(time, cfg, dur) ==
    TruncatedWindow(GrownWindow(ClampedWindow(time, cfg, dur), cfg, dur), cfg)

\* _window_contribution: abs(ev.time - center) <= window / 2.0
WindowContribution(center, events, window) ==
    SumSeq([k \in 1..Len(events) |->
               IF 2 * Abs(events[k].time - center) <= window
               THEN events[k].score ELSE 0])

\* weight_lookup.get(other_tag, 0.0)
WeightOf(cfg, tag) == IF tag \in DOMAIN cfg.weights THEN cfg.weights[tag] ELSE 0

\* lines 55-62: score
CompositeScore(time, by_tag, cfg, window) ==
    SumSeq([k \in 1..Len(by_tag) |->
               IF WeightOf(cfg, by_tag[k].tag) <= 0 THEN 0
               ELSE WeightOf(cfg, by_tag[k].tag)
                    * WindowContribution(time, by_tag[k].events, window)])

\* lines 56-64: tags
CollectedTags(tag, time, by_tag, cfg, window) ==
    {tag} \cup
    { by_tag[k].tag : k \in
        { j \in 1..Len(by_tag) :
            /\ WeightOf(cfg, by_tag[j].tag) > 0
            /\ WindowContribution(time, by_tag[j].events, window) > 0 } }

\* _infer_camera_label: the stems of the paths used here hold no delimiter
InferCameraLabel(path) ==
    CASE path = "camA.mp4" -> "camA"
      [] path = "camB.mp4" -> "camB"

\* lines 68-75: CandidateClip(...)
MakeCandidate(path, tag, time, by_tag, cfg, dur) ==
    LET w == FinalWindow(time, cfg, dur)
    IN  Clip(path, Round3(w[1]), Round3(w[2]),
             CompositeScore(time, by_tag, cfg, w[2] - w[1]),
             CollectedTags(tag, time, by_tag, cfg, w[2] - w[1]),
             InferCameraLabel(path))

\* two candidates that are the same window
OverlapsExact(a, b, tolerance) ==
    /\ a.src = b.src
    /\ a.start = b.start
    /\ a.end = b.end

\* _overlaps
Overlaps(a, b, tolerance) ==
    /\ a.src = b.src
    /\ Abs(a.start - b.start) <= tolerance
    /\ Abs(a.end - b.end) <= tolerance

ScoreDescending(a, b) == a.score > b.score

\* the loop of _merge_similar_candidates over the sorted candidates
RECURSIVE MergeInto(_, _)
MergeInto(kept, rest) ==
    IF rest = << >> THEN kept
    ELSE IF \E k \in 1..Len(kept) : Overlaps(Head(rest), kept[k], MergeTolerance)
         THEN MergeInto(kept, Tail(rest))
         ELSE MergeInto(Append(kept, Head(rest)), Tail(rest))

\* _merge_similar_candidates
MergeSimilarCandidates(cands) ==
    MergeInto(<< >>, StableSort(cands, ScoreDescending))

\* the events of the detectors: near the start of the source, in its middle,
\* near its end, and beyond its end; one with score 0
TaggedEvents ==
    { [tag |-> "audio_peak", time |-> Ms(500), score |-> 80],
      [tag |-> "audio_peak", time |-> Sec(5), score |-> 80],
      [tag |-> "audio_peak", time |-> Ms(9900), score |-> 50],
      [tag |-> "audio_peak", time |-> Sec(20), score |-> 80],
      [tag |-> "motion", time |-> Ms(5300), score |-> 80],
      [tag |-> "motion", time |-> Ms(9900), score |-> 50],
      [tag |-> "motion", time |-> Sec(5), score |-> 0],
      [tag |-> "faces", time |-> Ms(5200), score |-> 50],
      [tag |-> "faces", time |-> Ms(500), score |-> 80] }

DetectorOrder == << "audio_peak", "motion", "faces", "scene_novelty", "brightness_flash" >>

\* the dict analyze_source builds from a list of tagged events: one key per
\* tag that has events, in the order of the detectors
EventsByTag(tagged) ==
    LET under(tag) == [k \in 1..Len(SelectSeq(tagged, LAMBDA e : e.tag = tag)) |->
                         [ time |-> SelectSeq(tagged, LAMBDA e : e.tag = tag)[k].time,
                           score |-> SelectSeq(tagged, LAMBDA e : e.tag = tag)[k].score ]]
        present == SelectSeq(DetectorOrder, LAMBDA tag : under(tag) # << >>)
    IN  [k \in 1..Len(present) |-> [tag |-> present[k], events |-> under(present[k])]]

EventInputs ==
    { EventsByTag(tagged) :
        tagged \in UNION { [1..n -> TaggedEvents] : n \in 0..MaxEvents } }

\* what _probe_duration returns: 0 when the probe fails, else the duration
DurationChoices == { 0, Sec(10), Us(10000600), Sec(2) }

\* configurations whose target length is the middle of target_range, clip_min
\* and clip_max in turn; one that weighs audio peaks only
CandidateConfigs ==
    { TestConfig,
      [TestConfig EXCEPT !.clip_min = Sec(3)],
      [TestConfig EXCEPT !.clip_max = Sec(2),
                         !.weights = [t \in {"audio_peak"} |-> WeightOne]] }

\* generate_candidates is called
GcInit ==
    /\ gc_pc = "call"
    /\ gc_path \in {"camA.mp4", "camB.mp4"}
    /\ gc_duration \in DurationChoices
    /\ events_by_tag \in EventInputs
    /\ anchor_tags = << >>
    /\ tag_idx = 1
    /\ event_idx = 1
    /\ gc_candidates = << >>
    /\ windows = << >>
    /\ gc_result = << >>

\* lines 26-29: the probe gave no duration
GcNoDuration ==
    /\ gc_pc = "call"
    /\ gc_duration <= 0
    /\ gc_result' = << >>
    /\ gc_pc' = "done"
    /\ UNCHANGED << gc_path, gc_duration, events_by_tag, anchor_tags, tag_idx,
                    event_idx, gc_candidates, windows >>
    /\ UNCHANGED << selVars, cliVars, fcVars, bcVars, serVars, asVars >>

\* lines 31-38: no anchor tag at all
GcNoAnchors ==
    /\ gc_pc = "call"
    /\ gc_duration > 0
    /\ AnchorTags(events_by_tag) = << >>
    /\ gc_result' = << >>
    /\ gc_pc' = "done"
    /\ UNCHANGED << gc_path, gc_duration, events_by_tag, anchor_tags, tag_idx,
                    event_idx, gc_candidates, windows >>
    /\ UNCHANGED << selVars, cliVars, fcVars, bcVars, serVars, asVars >>

\* lines 31-42: the anchor tags are chosen and the loops begin
GcBegin ==
    /\ gc_pc = "call"
    /\ gc_duration > 0
    /\ AnchorTags(events_by_tag) # << >>
    /\ anchor_tags' = AnchorTags(events_by_tag)
    /\ tag_idx' = 1
    /\ event_idx' = 1
    /\ gc_candidates' = << >>
    /\ windows' = << >>
    /\ gc_pc' = "loop"
    /\ UNCHANGED << gc_path, gc_duration, events_by_tag, gc_result >>
    /\ UNCHANGED << selVars, cliVars, fcVars, bcVars, serVars, asVars >>

AnchorTag == anchor_tags[tag_idx]
AnchorEvent == EventsOf(events_by_tag, AnchorTag)[event_idx]

\* the window of the anchor event after each step, with its score
WindowRecord ==
    LET clamped == ClampedWindow(AnchorEvent.time, config, gc_duration)
        grown == GrownWindow(clamped, config, gc_duration)
        final == TruncatedWindow(grown, config)
    IN  [ tag |-> AnchorTag, time |-> AnchorEvent.time,
          clamped |-> clamped, grown |-> grown, final |-> final,
          score |-> CompositeScore(AnchorEvent.time, events_by_tag, config,
                                   final[2] - final[1]) ]

\* the loops go on with the next event, the next tag, or end
GcAdvance ==
    /\ IF event_idx < Len(EventsOf(events_by_tag, AnchorTag))
       THEN event_idx' = event_idx + 1 /\ tag_idx' = tag_idx /\ gc_pc' = "loop"
       ELSE /\ event_idx' = 1
            /\ tag_idx' = tag_idx + 1
            /\ gc_pc' = IF tag_idx + 1 > Len(anchor_tags) THEN "merge" ELSE "loop"

\* lines 45-67: an anchor event whose score is not positive is skipped
GcDiscard ==
    /\ gc_pc = "loop"
    /\ WindowRecord.score <= 0
    /\ windows' = Append(windows, WindowRecord)
    /\ GcAdvance
    /\ UNCHANGED << gc_path, gc_duration, events_by_tag, anchor_tags,
                    gc_candidates, gc_result >>
    /\ UNCHANGED << selVars, cliVars, fcVars, bcVars, serVars, asVars >>

\* lines 45-76: an anchor event gives a candidate
GcAppend ==
    /\ gc_pc = "loop"
    /\ WindowRecord.score > 0
    /\ windows' = Append(windows, WindowRecord)
    /\ gc_candidates' = Append(gc_candidates,
            MakeCandidate(gc_path, AnchorTag, AnchorEvent.time, events_by_tag,
                          config, gc_duration))
    /\ GcAdvance
    /\ UNCHANGED << gc_path, gc_duration, events_by_tag, anchor_tags, gc_result >>
    /\ UNCHANGED << selVars, cliVars, fcVars, bcVars, serVars, asVars >>

\* lines 78-80: merge, sort, return
GcReturn ==
    /\ gc_pc = "merge"
    /\ gc_result' = StableSort(MergeSimilarCandidates(gc_candidates), ScoreDescending)
    /\ gc_pc' = "done"
    /\ UNCHANGED << gc_path, gc_duration, events_by_tag, anchor_tags, tag_idx,
                    event_idx, gc_candidates, windows >>
    /\ UNCHANGED << selVars, cliVars, fcVars, bcVars, serVars, asVars >>

NextCandidates ==
    \/ GcNoDuration
    \/ GcNoAnchors
    \/ GcBegin
    \/ GcDiscard
    \/ GcAppend
    \/ GcReturn

\* generate_candidates is called with a configuration of its own
InitCandidates ==
    /\ config \in CandidateConfigs
    /\ candidates_by_src = << >>
    /\ rng = [seed |-> 0, pos |-> 0]
    /\ pc = "idle"
    /\ ordered = << >>
    /\ idx = 1
    /\ selected = << >>
    /\ total_duration = 0
    /\ camera_usage = NoUsage
    /\ last_camera_time = NoLast
    /\ trimmed = {}
    /\ result = NoResult
    /\ run = 1
    /\ outputs = << >>
    /\ CliIdle
    /\ FcIdle
    /\ BcIdle
    /\ SerIdle
    /\ GcInit
    /\ AsIdle

SpecCandidates == InitCandidates /\ [][NextCandidates]_vars

\* every halving of the model is exact
HalvesExact ==
    gc_pc = "loop" =>
        LET clamped == ClampedWindow(AnchorEvent.time, config, gc_duration)
        IN  /\ TargetLen(config) % 2 = 0
            /\ (config.target_range[1] + config.target_range[2]) % 2 = 0
            /\ (config.clip_min - (clamped[2] - clamped[1])) % 2 = 0


(***************************************************************************)
(* generate_candidates as a function of its arguments and of the duration  *)
(* the probe returns.                                                      *)
(***************************************************************************)
\* the anchor events in the order of the two loops, lines 44-45
AnchorEvents(by_tag) ==
    Flatten([k \in 1..Len(AnchorTags(by_tag)) |->
               [e \in 1..Len(EventsOf(by_tag, AnchorTags(by_tag)[k])) |->
                   [ tag |-> AnchorTags(by_tag)[k],
                     time |-> EventsOf(by_tag, AnchorTags(by_tag)[k])[e].time ]]])

\* generate_candidates
GenerateCandidates(path, by_tag, cfg, dur) ==
    IF dur <= 0 THEN << >>
    ELSE LET width(time) == FinalWindow(time, cfg, dur)[2] - FinalWindow(time, cfg, dur)[1]
             scored == SelectSeq(AnchorEvents(by_tag),
                                 LAMBDA a : CompositeScore(a.time, by_tag, cfg, width(a.time)) > 0)
             built == [k \in 1..Len(scored) |->
                          MakeCandidate(path, scored[k].tag, scored[k].time, by_tag, cfg, dur)]
         IN  StableSort(MergeSimilarCandidates(built), ScoreDescending)

GcReturned == gc_pc = "done"

\* the function and the steps of generate_candidates return the same list
GcStepsAgree ==
    GcReturned =>
        gc_result = GenerateCandidates(gc_path, events_by_tag, config, gc_duration)

(***************************************************************************)
(* analysis/__init__.py: analyze_sources.  For each source the world says  *)
(* whether its analysis raises, what the probe returns as its duration,    *)
(* and which events the detectors find.                                    *)
(***************************************************************************)
MaxPaths == 2

Sources == {"camA.mp4", "camB.mp4"}

SourceState(raises, dur, tagged) == [raises |-> raises, duration |-> dur, events |-> tagged]

\* a source whose analysis raises, one whose probe fails, one without events,
\* one whose only event scores 0, and two that yield candidates
SourceStates ==
    LET peak == [tag |-> "audio_peak", time |-> Sec(5), score |-> 80]
        early == [tag |-> "audio_peak", time |-> Ms(500), score |-> 80]
        move == [tag |-> "motion", time |-> Ms(5300), score |-> 50]
        still == [tag |-> "motion", time |-> Sec(5), score |-> 0]
    IN  { SourceState(TRUE, Sec(10), << peak >>),
          SourceState(FALSE, 0, << peak >>),
          SourceState(FALSE, Sec(10), << >>),
          SourceState(FALSE, Sec(10), << still >>),
          SourceState(FALSE, Sec(10), << peak >>),
          SourceState(FALSE, Sec(10), << early, move >>) }

\* analyze_source, lines 33-61, when no detector and no probe raises
AnalyzeSource(path, state, cfg) ==
    IF EventsByTag(state.events) = << >> THEN << >>
    ELSE GenerateCandidates(path, EventsByTag(state.events), cfg, state.duration)

\* result[key] = value on a dict kept as the sequence of its items
SetItem(items, key, value) ==
    IF \E k \in 1..Len(items) : items[k].src = key
    THEN [k \in 1..Len(items) |->
             IF items[k].src = key THEN Entry(key, value) ELSE items[k]]
    ELSE Append(items, Entry(key, value))

\* analyze_sources is called
AsInit ==
    /\ as_pc = "loop"
    /\ as_paths \in SeqsUpTo(Sources, MaxPaths)
    /\ as_world \in [Sources -> SourceStates]
    /\ path_idx = 1
    /\ as_result = << >>

AsPath == as_paths[path_idx]

\* the exception of line 25 leaves analyze_sources
AsSourceAborts ==
    /\ as_pc = "loop"
    /\ path_idx <= Len(as_paths)
    /\ as_world[AsPath].raises
    /\ as_pc' = "raised"
    /\ UNCHANGED << as_paths, as_world, path_idx, as_result >>
    /\ UNCHANGED << selVars, cliVars, fcVars, bcVars, serVars, gcVars >>

\* lines 24-29: analyze_source raises, the exception is logged
AsSourceRaises ==
    /\ as_pc = "loop"
    /\ path_idx <= Len(as_paths)
    /\ as_world[AsPath].raises
    /\ path_idx' = path_idx + 1
    /\ UNCHANGED << as_pc, as_paths, as_world, as_result >>
    /\ UNCHANGED << selVars, cliVars, fcVars, bcVars, serVars, gcVars >>

\* lines 25-26: analyze_source returns an empty list
AsSourceEmpty ==
    /\ as_pc = "loop"
    /\ path_idx <= Len(as_paths)
    /\ ~as_world[AsPath].raises
    /\ AnalyzeSource(AsPath, as_world[AsPath], config) = << >>
    /\ path_idx' = path_idx + 1
    /\ UNCHANGED << as_pc, as_paths, as_world, as_result >>
    /\ UNCHANGED << selVars, cliVars, fcVars, bcVars, serVars, gcVars >>

\* lines 25-27: the candidates are stored under the path
AsSourceStored ==
    /\ as_pc = "loop"
    /\ path_idx <= Len(as_paths)
    /\ ~as_world[AsPath].raises
    /\ AnalyzeSource(AsPath, as_world[AsPath], config) # << >>
    /\ as_result' = SetItem(as_result, AsPath,
                            AnalyzeSource(AsPath, as_world[AsPath], config))
    /\ path_idx' = path_idx + 1
    /\ UNCHANGED << as_pc, as_paths, as_world >>
    /\ UNCHANGED << selVars, cliVars, fcVars, bcVars, serVars, gcVars >>

\* line 30
AsReturn ==
    /\ as_pc = "loop"
    /\ path_idx > Len(as_paths)
    /\ as_pc' = "done"
    /\ UNCHANGED << as_paths, as_world, path_idx, as_result >>
    /\ UNCHANGED << selVars, cliVars, fcVars, bcVars, serVars, gcVars >>

NextAnalyze ==
    \/ AsSourceRaises
    \/ AsSourceEmpty
    \/ AsSourceStored
    \/ AsReturn

InitAnalyze ==
    /\ config \in { TestConfig, [TestConfig EXCEPT !.clip_min = Sec(3)] }
    /\ candidates_by_src = << >>
    /\ rng = [seed |-> 0, pos |-> 0]
    /\ pc = "idle"
    /\ ordered = << >>
    /\ idx = 1
    /\ selected = << >>
    /\ total_duration = 0
    /\ camera_usage = NoUsage
    /\ last_camera_time = NoLast
    /\ trimmed = {}
    /\ result = NoResult
    /\ run = 1
    /\ outputs = << >>
    /\ CliIdle
    /\ FcIdle
    /\ BcIdle
    /\ SerIdle
    /\ GcIdle
    /\ AsInit

SpecAnalyze == InitAnalyze /\ [][NextAnalyze]_vars

(***************************************************************************)
(* Properties of generate_candidates.                                      *)
(***************************************************************************)
\* C18: every candidate returned lies inside its source:
\* 0 <= start <= end <= duration.
C18_WithinSource ==
    GcReturned =>
        \A k \in 1..Len(gc_result) :
            /\ 0 <= gc_result[k].start
            /\ gc_result[k].start <= gc_result[k].end
            /\ gc_result[k].end <= gc_duration

C20_GrowsToClipMin ==
    /\ \A k \in 1..Len(windows) :
        (windows[k].clamped[2] - windows[k].clamped[1] < config.clip_min) =>
            \/ windows[k].grown[2] - windows[k].grown[1] >= config.clip_min
            \/ windows[k].grown = << 0, gc_duration >>
    /\ (GcReturned /\ gc_duration >= config.clip_min) =>
        \A k \in 1..Len(gc_result) :
            gc_result[k].end - gc_result[k].start >= config.clip_min

\* both the starts and the ends of two candidates are within the tolerance
WithinTolerance(a, b) ==
    /\ Abs(a.start - b.start) <= MergeTolerance
    /\ Abs(a.end - b.end) <= MergeTolerance

\* C21: no two candidates returned by generate_candidates are within 0.5 s
\* of each other on both start and end; every candidate that was built and
\* is not returned is within that tolerance of a returned candidate whose
\* score is at least as high; the list is in non-increasing order of score.
C21_Deduplicated ==
    GcReturned =>
        /\ \A i, j \in 1..Len(gc_result) :
            i # j => ~WithinTolerance(gc_result[i], gc_result[j])
        /\ \A k \in 1..Len(gc_candidates) :
            \/ \E r \in 1..Len(gc_result) : gc_result[r] = gc_candidates[k]
            \/ \E r \in 1..Len(gc_result) :
                /\ WithinTolerance(gc_candidates[k], gc_result[r])
                /\ gc_result[r].score >= gc_candidates[k].score
        /\ \A r \in 1..Len(gc_result) :
            \E k \in 1..Len(gc_candidates) : gc_result[r] = gc_candidates[k]
        /\ \A i, j \in 1..Len(gc_result) :
            i < j => gc_result[i].score >= gc_result[j].score

\* C21 witness: of two candidates with different windows, 0.3 s apart, the
\* second was dropped
C21_Witness ==
    /\ GcReturned
    /\ Len(gc_candidates) = 2
    /\ Len(gc_result) = 1
    /\ gc_candidates[2].start - gc_candidates[1].start = Ms(300)
    /\ gc_result[1] = gc_candidates[1]

\* C21 second case: two candidates are returned, the second built first
C21_WitnessSorted ==
    /\ GcReturned
    /\ Len(gc_result) = 2
    /\ gc_result[1] = gc_candidates[2]
    /\ gc_result[1].score > gc_result[2].score

(***************************************************************************)
(* Properties of analyze_sources.                                          *)
(***************************************************************************)
\* the analysis of the source raises, or its duration probe fails
SourceFails(path) ==
    \/ as_world[path].raises
    \/ (EventsByTag(as_world[path].events) # << >> /\ as_world[path].duration <= 0)

\* what analyze_sources returns for the source alone
AnalysedAlone(path) ==
    IF AnalyzeSource(path, as_world[path], config) = << >> THEN << >>
    ELSE << Entry(path, AnalyzeSource(path, as_world[path], config)) >>

ItemsOf(items, path) == SelectSeq(items, LAMBDA item : item.src = path)

\* C22: a source whose duration probe fails or whose analysis raises
\* contributes no candidates and does not abort the batch: analyze_sources
\* returns, and holds for every other source exactly the candidates the
\* source yields when analysed alone.
C22_FaultIsolation ==
    /\ as_pc # "raised"
    /\ as_pc = "done" =>
        /\ \A k \in 1..Len(as_paths) :
            IF SourceFails(as_paths[k])
            THEN ItemsOf(as_result, as_paths[k]) = << >>
            ELSE ItemsOf(as_result, as_paths[k]) = AnalysedAlone(as_paths[k])
        /\ \A k \in 1..Len(as_result) :
            \E j \in 1..Len(as_paths) : as_result[k].src = as_paths[j]

\* C22 witness: the first source raises, the second yields candidates that
\* are returned
C22_Witness ==
    /\ as_pc = "done"
    /\ Len(as_paths) = 2
    /\ as_world[as_paths[1]].raises
    /\ ~SourceFails(as_paths[2])
    /\ Len(as_result) = 1
    /\ as_result[1].src = as_paths[2]
    /\ as_result[1].clips # << >>

\* C22 second case: the probe of the first source fails
C22_WitnessProbe ==
    /\ as_pc = "done"
    /\ Len(as_paths) = 2
    /\ ~as_world[as_paths[1]].raises
    /\ as_world[as_paths[1]].duration = 0
    /\ Len(as_result) = 1
    /\ as_result[1].src = as_paths[2]

(***************************************************************************)
(* select_segments as a function: the loop of lines 38-79 from the         *)
(* candidate at position j on, in a state of its four local variables.     *)
(* With skip the hard stop of line 58 is a `continue`.                     *)
(***************************************************************************)
LoopState(sel, total, usage, last) ==
    [selected |-> sel, total_duration |-> total, camera_usage |-> usage,
     last_camera_time |-> last]

\* lines 64-76: the state after the candidate is accepted
Accepted(st, cand, cfg) ==
    LET segment == MakeSegment(cand, cfg, st.total_duration)
        camera == CameraOf(cand)
    IN  LoopState(Append(st.selected, segment),
                  st.total_duration + Duration(segment),
                  [st.camera_usage EXCEPT ![camera] = @ + Duration(segment)],
                  [c \in DOMAIN st.last_camera_time \cup {camera} |->
                      IF c = camera THEN segment.start ELSE st.last_camera_time[c]])

RECURSIVE LoopFrom(_, _, _, _, _)
LoopFrom(ord, j, st, cfg, skip) ==
    IF j > Len(ord) THEN st.selected
    ELSE IF Rejected(ord[j], cfg, st.selected, st.camera_usage, st.last_camera_time)
         THEN LoopFrom(ord, j + 1, st, cfg, skip)
    ELSE IF HardStop(ord[j], cfg, st.total_duration)
         THEN IF skip THEN LoopFrom(ord, j + 1, st, cfg, skip) ELSE st.selected
    ELSE IF BudgetReached(Accepted(st, ord[j], cfg).total_duration, cfg)
         THEN Accepted(st, ord[j], cfg).selected
    ELSE LoopFrom(ord, j + 1, Accepted(st, ord[j], cfg), cfg, skip)

\* the segments of the EDL select_segments returns
SelectSegments(mapping, cfg) ==
    LET all == Flatten([k \in 1..Len(mapping) |-> mapping[k].clips])
    IN  IF all = << >> THEN << >>
        ELSE LoopFrom(OrderCandidates(all, Random(cfg.seed)), 1,
                      LoopState(<< >>, 0, NoUsage, NoLast), cfg, FALSE)

\* the function and the steps of select_segments return the same segments
SelectStepsAgree == Done => Segments = SelectSegments(candidates_by_src, config)

(***************************************************************************)
(* Properties of the selection loop.                                       *)
(***************************************************************************)
\* the loop was left by the hard stop of line 58, at the candidate ordered[idx]
HardStopped ==
    /\ pc \in {"return", "done"}
    /\ idx <= Len(ordered)
    /\ ~BudgetReached(total_duration, config)

InRange(cand, cfg) == Duration(cand) >= cfg.clip_min /\ Duration(cand) <= cfg.clip_max

\* C23: when the loop hard-stops because remaining = max_duration -
\* total_duration is below clip_min, every candidate from the stop on that
\* passes the duration-range check is longer than remaining, and going on
\* with a per-candidate skip instead of the stop selects the same segments.
C23_HardStopLosesNothing ==
    HardStopped =>
        /\ config.max_duration - total_duration < config.clip_min
        /\ \A j \in idx..Len(ordered) :
            InRange(ordered[j], config) =>
                Duration(ordered[j]) > config.max_duration - total_duration
        /\ LoopFrom(ordered, idx,
                    LoopState(selected, total_duration, camera_usage, last_camera_time),
                    config, TRUE) = selected

\* C23 witness: the loop hard-stopped with a candidate left after the stop
\* that passes the duration-range check and none of whose other checks fail
C23_Witness ==
    /\ HardStopped
    /\ selected # << >>
    /\ \E j \in (idx + 1)..Len(ordered) :
        ~Rejected(ordered[j], config, selected, camera_usage, last_camera_time)

\* C24: no segment is accepted in a state where the running total already
\* satisfies total_duration >= max_duration - 0.01.
C24_NoAcceptInBand ==
    [][selected' # selected /\ selected' # << >> =>
          ~BudgetReached(total_duration, config)]_vars

\* lines 107-111: the list `jittered` after its sort, each candidate with the
\* jittered score it was given
SortedJittered(cands, g) ==
    LET first == StableSort(cands, FirstKeyLess)
    IN  StableSort([k \in 1..Len(first) |->
                       [key |-> first[k].score + Jitter(g, k), cand |-> first[k]]],
                   JitteredKeyLess)

\* the loop has the list `ordered` of the current call
Ordered == pc \in {"loop", "return", "done"} /\ ordered # << >>

\* the candidates are processed in the order of the key
\* (-(score + jitter), source ascending, start ascending)
ProcessedInKeyOrder ==
    LET items == SortedJittered(AllCandidates, Random(config.seed))
    IN  /\ ordered = [k \in 1..Len(items) |-> items[k].cand]
        /\ \A i, j \in 1..Len(items) :
            i < j =>
                \/ items[i].key > items[j].key
                \/ /\ items[i].key = items[j].key
                   /\ RankIn(SourceAlphabet, items[i].cand.src)
                        < RankIn(SourceAlphabet, items[j].cand.src)
                \/ /\ items[i].key = items[j].key
                   /\ items[i].cand.src = items[j].cand.src
                   /\ items[i].cand.start <= items[j].cand.start

\* C25 as stated: the candidates are processed in the order of the key, and
\* of two candidates with different scores the higher-scoring one is
\* processed before the lower-scoring one.
C25_JitterBreaksTiesOnly ==
    Ordered =>
        /\ ProcessedInKeyOrder
        /\ \A i, j \in 1..Len(ordered) :
            i < j => ordered[i].score >= ordered[j].score

\* C25 amended: the candidates are processed in the order of the key, and of
\* two candidates whose scores differ by at least 1e-6 the higher-scoring one
\* is processed before the lower-scoring one; the jitter decides the order
\* of candidates whose scores are closer than that.
C25_JitterBelowMicro ==
    Ordered =>
        /\ ProcessedInKeyOrder
        /\ \A i, j \in 1..Len(ordered) :
            i < j => ordered[j].score - ordered[i].score < JitterRange

\* C25 witness: a candidate is processed before one whose score is higher by
\* less than 1e-6, and before one whose score is lower by more
C25_Witness ==
    /\ Ordered
    /\ \E i, j \in 1..Len(ordered) :
        /\ i < j
        /\ ordered[i].score < ordered[j].score
    /\ \E i, j \in 1..Len(ordered) :
        /\ i < j
        /\ ordered[i].score - ordered[j].score >= JitterRange

(***************************************************************************)
(* Properties of the scores and tags of generate_candidates.               *)
(***************************************************************************)
\* the anchor events that gave a candidate, in the order of gc_candidates
ScoredWindows == SelectSeq(windows, LAMBDA w : w.score > 0)

\* the tags with a positive weight and a positive summed event score within
\* the half-width of the window around the anchor time
ContributingTags(w) ==
    { events_by_tag[k].tag : k \in
        { j \in 1..Len(events_by_tag) :
            /\ WeightOf(config, events_by_tag[j].tag) > 0
            /\ SumSeq([e \in 1..Len(events_by_tag[j].events) |->
                          IF 2 * Abs(events_by_tag[j].events[e].time - w.time)
                                <= w.final[2] - w.final[1]
                          THEN events_by_tag[j].events[e].score
                          ELSE 0]) > 0 } }

\* C26: every candidate retained by generate_candidates has a composite score
\* above 0, and its tags are exactly the tags that have a positive weight and
\* a positive summed event score within the half-width of the window around
\* the anchor time.
C26_TagsContributed ==
    GcReturned =>
        \A r \in 1..Len(gc_result) :
            /\ gc_result[r].score > 0
            /\ \A k \in 1..Len(gc_candidates) :
                gc_candidates[k] = gc_result[r] =>
                    gc_result[r].tags = ContributingTags(ScoredWindows[k])

(***************************************************************************)
(* Properties of the order of the stages of the graph.                     *)
(***************************************************************************)
\* the lines of the graph that run a filter
StagesWith(graph, filters) == {k \in 1..Len(graph) : graph[k].filter \in filters}

\* C27: in every graph returned the stages are in order: the trim stages of
\* the segments, then the one concat node producing [vcat][acat], then a
\* logo overlay if and only if there is a logo input index, then the
\* pixel-format stage producing [vout]; the stage producing [aout] consumes
\* [acat], comes after the concat node, and is loudnorm unless disabled.
C27_StageOrder ==
    Returned =>
        LET graph == fc_result.graph
            has_logo == fc_args.logo_idx # << >>
        IN  /\ Cardinality(ConcatNodes(graph)) = 1
            /\ \A c \in ConcatNodes(graph) :
                /\ graph[c].outs = << "vcat", "acat" >>
                /\ \A k \in StagesWith(graph, {"trim", "atrim", "anullsrc", "scale"}) :
                    k < c
                /\ Cardinality(StagesWith(graph, {"trim"})) = Len(fc_args.segments)
                /\ \A k \in StagesWith(graph, {"overlay", "format", "loudnorm", "anorm"}) :
                    k > c
            /\ Cardinality(StagesWith(graph, {"overlay"})) = (IF has_logo THEN 1 ELSE 0)
            /\ \A o \in StagesWith(graph, {"overlay"}) :
                /\ graph[o].ins = << "vcat", ToString(fc_args.logo_idx[1]) >>
                /\ \A f \in StagesWith(graph, {"format"}) : o < f
            /\ Cardinality(StagesWith(graph, {"format"})) = 1
            /\ Producers(graph, "vout") = StagesWith(graph, {"format"})
            /\ \A f \in StagesWith(graph, {"format"}) :
                /\ graph[f].outs = << "vout" >>
                /\ IF has_logo
                   THEN graph[f].ins = << "vo" >> /\ Producers(graph, "vo") = StagesWith(graph, {"overlay"})
                   ELSE graph[f].ins = << "vcat" >>
            /\ Cardinality(Producers(graph, "aout")) = 1
            /\ \A n \in Producers(graph, "aout") :
                /\ graph[n].ins = << "acat" >>
                /\ graph[n].filter = "loudnorm" <=> fc_args.loudnorm
            /\ fc_result.video_label = "vout"
            /\ fc_result.audio_label = "aout"

\* C27 witness: a graph of two segments with a logo input and loudness
\* normalization was returned
C27_Witness ==
    /\ Returned
    /\ Len(fc_args.segments) = 2
    /\ fc_args.logo_idx = << 2 >>
    /\ fc_args.loudnorm
    /\ StagesWith(fc_result.graph, {"overlay"}) # {}

\* C27 second case: no logo, loudness normalization disabled
C27_WitnessPlain ==
    /\ Returned
    /\ Len(fc_args.segments) = 2
    /\ fc_args.logo_idx = << >>
    /\ ~fc_args.loudnorm
    /\ StagesWith(fc_result.graph, {"anorm"}) # {}

\* a step of the loop that accepts the candidate ordered[idx]
Accepts == selected' # selected /\ selected' # << >>

\* C28: every segment accepted has a duration within [clip_min, clip_max],
\* a trimmed one included; a trimmed segment has the source of its candidate
\* and its start (to 3 decimals), ends no later than its candidate, and is
\* the last segment of the EDL.
C28_AcceptedWithinRange ==
    [][Accepts =>
          LET segment == selected'[Len(selected')]
          IN  /\ Duration(segment) >= config.clip_min
              /\ Duration(segment) <= config.clip_max
              /\ OverBudget(Cand, config, total_duration) =>
                    /\ segment.src = Cand.src
                    /\ segment.start = Round3(Cand.start)
                    /\ segment.end <= Cand.end
                    /\ pc' = "return"]_vars

(***************************************************************************)
(* Properties of select_segments under a reordering of its input.          *)
(***************************************************************************)
\* the orders in which the elements of a list can be supplied
Reorderings(seq) ==
    { [k \in 1..Len(seq) |-> seq[f[k]]] : f \in Permutations(1..Len(seq)) }

\* the mappings that hold the same candidates under the same keys, with the
\* keys and the candidates of each list in any order
PermutedMappings(mapping) ==
    { [k \in 1..Len(mapping) |-> Entry(mapping[f[k]].src, lists[f[k]])] :
        f \in Permutations(1..Len(mapping)),
        lists \in { q \in [1..Len(mapping) ->
                            UNION { Reorderings(mapping[k].clips) : k \in 1..Len(mapping) }] :
                      \A k \in 1..Len(mapping) : q[k] \in Reorderings(mapping[k].clips) } }

\* C29: the segments select_segments returns do not depend on the order of
\* the keys of the mapping or of the candidates inside each list.
C29_OrderIndependent ==
    Done =>
        \A mapping \in PermutedMappings(candidates_by_src) :
            SelectSegments(mapping, config) = Segments

====
